---- MODULE Spec2Model ----
(***************************************************************************)
(* Verification model of the viewport-triggered reveal and deferred        *)
(* resource loading code of the landing page:                              *)
(*   - LazyLoader                  (lazy-loading module)                   *)
(*   - AnimationManager            (animations module)                     *)
(*   - WorkflowAnimationController (workflow module)                       *)
(* One page runs one of these scripts; `page` says which one a behaviour   *)
(* is about, and each script has its own specification.                    *)
(***************************************************************************)
EXTENDS Integers, FiniteSets, Sequences, TLC

\* ------------------------------------------------------------- bounds
\* Number of elements matching the AnimationManager selectors.
NumElems == 2
\* Largest number of steps (and of connectors) in the workflow section.
MaxSteps == 2
\* Where the history counters (reveals, entered, runs, triggers) saturate.
MaxCount == 2
\* Number of lazy-loadable <img> nodes the page script may hold.
NumImgs == 1
\* Number of loadImage() calls followed per image.
MaxLoads == 2
\* Number of undelivered MutationObserver records.
MaxPending == 1
\* Longest time (ms) a due timeout waits for the main thread.
MaxLate == 100
\* Number of feature cards / pricing cards in the section.
NumCards == 3
\* Number of testimonial avatar images.
NumAvatars == 2
\* Number of calls of the application's entry-point initializer.
MaxCalls == 2
\* Number of times the page evaluates the lazy-loading script.
MaxEvals == 2
\* Number of fields of the validated form.
NumFields == 2
\* Number of simulated submissions that may be pending together.
MaxSubmits == 2
\* Number of icon elements the feature section can hold.
NumIcons == 2
\* Number of page sections the navigation links can scroll to.
NumSections == 2
\* Number of scrolling-flag timeouts that may be pending together.
MaxClicks == 3

\* part_004 CONFIG.MOBILE_BREAKPOINT (px)
MOBILE_BREAKPOINT == 768

\* ---------------------------------------------------------- constants
maxRetries == 3

Imgs == 1..NumImgs
Slots == 1..MaxLoads
Elems == 1..NumElems
Cards == 1..NumCards
Avatars == 1..NumAvatars
Calls == 1..MaxCalls

animateClass == "animate-in"
visibleClass == "is-visible"

placeholderClass == "lazy-placeholder"
loadingClass == "lazy-loading"
loadedClass == "lazy-loaded"
errorClass == "lazy-error"

\* The two deferred-resource attributes an <img> may carry.
DataAttrs == {"data-src", "data-srcset"}

VARIABLES
  page,           \* which script this behaviour is about
  ioSupported,    \* the browser has IntersectionObserver
  \* ---- LazyLoader: object fields
  observer,       \* this.observer is an IntersectionObserver (TRUE) or null
  observed,       \* targets the IntersectionObserver currently observes
  contentWatcher, \* the MutationObserver of setupMutationObserver exists
  images,         \* this.images
  loadedImages,   \* keys of this.loadedImages
  retryAttempts,  \* this.retryAttempts; 0 stands for "no entry"
  \* ---- LazyLoader: the DOM
  inDoc,          \* the node is attached under document.body
  attrs,          \* which of data-src / data-srcset the node carries
  src,            \* "none", "placeholder" (data URI) or "real"
  srcset,         \* srcset has been set from data-srcset
  classList,      \* the lazy-* classes of the node
  events,         \* 'lazyloaded' / 'lazyerror' events dispatched on the node
  \* ---- LazyLoader: asynchronous state
  load,           \* load[i][k]: the k-th loadImage(i) call and where it stands
  mutations,      \* MutationObserver records queued, not yet delivered
  thrown,         \* some handler or public method raised an exception
  destroyed,      \* destroy() has been called
  dynamic,        \* nodes attached by page code after construction
  \* ---- the browser
  reducedMotion,  \* matchMedia('(prefers-reduced-motion: reduce)').matches
  \* ---- AnimationManager: object fields and configuration
  staggerDelay,   \* config.staggerDelay
  amObserver,     \* this.observer is an IntersectionObserver (TRUE) or null
  amObserved,     \* targets that observer currently observes
  animatedElements,
  isInitialized,
  \* ---- AnimationManager: the DOM and the viewport
  amInDoc,        \* elements matching config.selectors, in the document
  amClass,        \* the animate-in / is-visible classes of each element
  amDelay,        \* the --animation-delay property, -1 when not set
  inView,         \* elements intersecting the viewport
  \* ---- AnimationManager: history
  reveals,        \* times animateElement revealed the element, this lifetime
  entered,        \* intersecting entries delivered for the element
  amThrown,       \* a public method let an exception reach its caller
  amDestroyed,    \* destroy() has run on the initialized instance
  \* ---- WorkflowAnimationController: the section
  wfConstructed,  \* initWorkflowAnimations has built the controller
  wfStatic,       \* the section carries the class 'static'
  nSteps,         \* this.steps.length
  nConnectors,    \* this.connectors.length
  stepVisible,    \* steps carrying workflow__step--visible
  stepAnimated,   \* steps carrying workflow__step--animated
  connectorActive,\* connectors carrying workflow__connector--active
  \* ---- WorkflowAnimationController: object fields
  iconAnimated,   \* steps whose icon and badge got their animation style
  wfObserver,     \* this.observer is an IntersectionObserver (TRUE) or null
  isAnimating,
  hasAnimated,
  prefersReducedMotion,
  timers,         \* live timeouts of animationTimeouts: kind, index, due time
  now,            \* ms since the staged run was triggered
  \* ---- WorkflowAnimationController: history
  runs,           \* times _triggerStepAnimations started a staged run
  triggers,       \* intersection entries with ratio >= 0.25 delivered
  stepFiredAt,    \* when the timer of each step ran _animateStep, -1: not yet
  wfDestroyed,    \* destroy() has been called
  \* ---- card reveal observers (features.js, pricing)
  cardKind,       \* "features" or "pricing"
  cardInit,       \* the section's initializer: "pending", "done", "failed"
  cardObserved,   \* cards the section's IntersectionObserver observes
  cardInView,     \* cards intersecting the viewport
  cardPending,    \* cards with a queued, undelivered intersection entry
  cardDelay,      \* delay of the timeout set for the card, -1: none set
  cardTimers,     \* cards whose reveal timeout is pending
  cardShown,      \* cards carrying the visible / animated class
  \* ---- LazyLoader of performance.js (it shares the lazy-loader variables
  \*      for its fields observer, images and for the DOM)
  pfInit,         \* what initialize() returned: "none" (not called), TRUE, FALSE
  loadedCount,
  errorCount,
  \* ---- testimonial avatars (hero.js)
  avatar,         \* per <img>: the element and its handleImageLoad() call
  \* ---- application entry point (src/js/main.js, part_006)
  appMain,        \* which main script the page runs: "init", "initializeApp"
  initialized,    \* appState.initialized
  call,           \* per call of the entry-point initializer: its position
  \* ---- lazy-loading auto-initialization (part_008, src/js/main.js)
  startup,        \* document readiness, window.lazyLoader, appState entries
  \* ---- form validation module (part_006)
  form,           \* the fields, the submit button and the module's timers
  \* ---- icon loading monitor (features.js initializeFontAwesome)
  icons,          \* the icons, their containers' classes, the timers
  \* ---- navigation module, mobile menu (part_004)
  menu,           \* state.isMobileMenuOpen, the menu's DOM, the resize timer
  \* ---- navigation module, smooth scroll (part_008)
  nav             \* navigationState, the location hash, the reset timeouts

lazyVars == <<observer, observed, contentWatcher, images, loadedImages,
              retryAttempts, inDoc, attrs, src, srcset, classList, events,
              load, mutations, thrown, destroyed, dynamic>>

amVars == <<staggerDelay, amObserver, amObserved, animatedElements,
            isInitialized, amInDoc, amClass, amDelay, inView, reveals,
            entered, amDestroyed, amThrown>>

wfVars == <<wfConstructed, wfStatic, nSteps, nConnectors, stepVisible,
            stepAnimated, connectorActive, iconAnimated, wfObserver,
            isAnimating, hasAnimated, prefersReducedMotion, timers, now, runs,
            triggers, stepFiredAt, wfDestroyed>>

cardVars == <<cardKind, cardInit, cardObserved, cardInView, cardPending, cardDelay,
              cardTimers, cardShown>>

perfVars == <<pfInit, loadedCount, errorCount>>

appVars == <<appMain, initialized, call>>

\* The variables of the scripts modelled one record each.
laterVars == <<startup, form, icons, menu, nav>>

vars == <<page, ioSupported, reducedMotion, lazyVars, amVars, wfVars,
          cardVars, perfVars, avatar, appVars, laterVars>>

\* What the actions of one script leave alone.
notLazy == <<page, ioSupported, reducedMotion, amVars, wfVars, cardVars,
             perfVars, avatar, appVars,
  laterVars>>
notAnim == <<page, ioSupported, lazyVars, wfVars, cardVars, perfVars, avatar,
             appVars,
  laterVars>>
notWorkflow == <<page, ioSupported, lazyVars, amVars, cardVars, perfVars,
                 avatar, appVars,
  laterVars>>
notCards == <<page, ioSupported, reducedMotion, lazyVars, amVars, wfVars,
              perfVars, avatar, appVars,
  laterVars>>
notPerf == <<page, ioSupported, reducedMotion, amVars, wfVars, cardVars,
             avatar, appVars,
  laterVars>>
notHero == <<page, ioSupported, reducedMotion, lazyVars, amVars, wfVars,
             cardVars, perfVars, appVars,
  laterVars>>
notApp == <<page, ioSupported, reducedMotion, lazyVars, amVars, wfVars,
            cardVars, perfVars, avatar,
  laterVars>>

\* Everything but the record of the script at hand.
earlierVars == <<page, ioSupported, reducedMotion, lazyVars, amVars, wfVars,
                 cardVars, perfVars, avatar, appVars>>
notStartup == <<earlierVars, form, icons, menu, nav>>
notForm == <<earlierVars, startup, icons, menu, nav>>
notIcons == <<earlierVars, startup, form, menu, nav>>
notMenu == <<earlierVars, startup, form, icons, nav>>
notNav == <<earlierVars, startup, form, icons, menu>>

\* ------------------------------------------------------------ helpers
Min(a, b) == IF a < b THEN a ELSE b

\* A history counter, saturating at MaxCount.
Bump(n) == Min(n + 1, MaxCount)

\* The page does not run the lazy-loading script.
NoLazyLoader ==
  /\ observer = FALSE /\ observed = {} /\ contentWatcher = FALSE
  /\ images = {} /\ loadedImages = {}
  /\ retryAttempts = [i \in Imgs |-> 0]
  /\ inDoc = [i \in Imgs |-> FALSE]
  /\ attrs = [i \in Imgs |-> {}]
  /\ src = [i \in Imgs |-> "none"]
  /\ srcset = [i \in Imgs |-> FALSE]
  /\ classList = [i \in Imgs |-> {}]
  /\ events = [i \in Imgs |-> [loaded |-> 0, error |-> 0]]
  /\ load = [i \in Imgs |-> [k \in 1..MaxLoads |-> 
               [pc |-> "idle", attempts |-> 0, cap |-> {}, wait |-> 0]]]
  /\ mutations = <<>> /\ thrown = FALSE /\ destroyed = FALSE
  /\ dynamic = {}

\* The page does not run the animations script.
NoAnimationManager ==
  /\ staggerDelay = 0 /\ amObserver = FALSE /\ amObserved = {}
  /\ animatedElements = {} /\ isInitialized = FALSE /\ amInDoc = {}
  /\ amClass = [e \in Elems |-> {}]
  /\ amDelay = [e \in Elems |-> -1]
  /\ inView = {}
  /\ reveals = [e \in Elems |-> 0]
  /\ entered = [e \in Elems |-> 0]
  /\ amDestroyed = FALSE
  /\ amThrown = FALSE

\* The page does not run the workflow script.
NoWorkflowController ==
  /\ wfConstructed = FALSE
  /\ stepFiredAt = [s \in 0..(MaxSteps - 1) |-> -1]
  /\ wfStatic = FALSE /\ nSteps = 0 /\ nConnectors = 0
  /\ stepVisible = {} /\ stepAnimated = {} /\ connectorActive = {}
  /\ iconAnimated = {}
  /\ wfObserver = FALSE /\ isAnimating = FALSE /\ hasAnimated = FALSE
  /\ prefersReducedMotion = FALSE /\ timers = {} /\ now = 0
  /\ runs = 0 /\ triggers = 0 /\ wfDestroyed = FALSE

\* The page has no card section.
NoCards ==
  /\ cardKind = "none" /\ cardInit = "none"
  /\ cardObserved = {} /\ cardInView = {}
  /\ cardPending = {} /\ cardTimers = {} /\ cardShown = {}
  /\ cardDelay = [c \in Cards |-> -1]

\* The page does not import performance.js.
NoPerformance == pfInit = "none" /\ loadedCount = 0 /\ errorCount = 0

\* An <img> that no handleImageLoad() call has touched; img is the state of
\* its request: "pending", "ok" (complete, naturalWidth > 0) or "broken".
IdleAvatar(img) ==
  [pc |-> "idle", attempt |-> 0, img |-> img, src |-> "avatar", class |-> {},
   listeners |-> {}, wait |-> -1, failures |-> <<>>]

\* The page has no testimonials section.
NoAvatars == avatar = [a \in Avatars |-> IdleAvatar("ok")]

\* A call of the entry-point initializer that has not been made.
IdleCall == [pc |-> "idle", retryCount |-> 0, attempts |-> 0, wait |-> -1,
             ready |-> 0, failed |-> 0]

\* The page runs no main script.
NoApp ==
  appMain = "none" /\ initialized = FALSE /\ call = [c \in Calls |-> IdleCall]

\* The document while it is being parsed, before any script has run:
\* window.lazyLoader is "absent" (no such property), later "undefined" (set
\* to undefined) or "instance"; lazyModule is what main.js recorded.
FreshDocument ==
  [ready |-> FALSE, evals |-> 0, listeners |-> 0, lazyLoader |-> "absent",
   instances |-> 0, main |-> "absent", lazyModule |-> "none"]

Fields == 1 .. NumFields

\* The form after initializeForm: fields hold their default (empty) value,
\* carry no class and are untouched; the button shows its own label; no
\* timer is pending (debounce = 0: the debounced handler's timeout is
\* clear, debounce = f: it will call handleFieldInput for field f).
FreshForm ==
  [value |-> [f \in Fields |-> "empty"],
   touched |-> [f \in Fields |-> FALSE],
   class |-> [f \in Fields |-> "none"],
   disabled |-> FALSE, label |-> "own", originalText |-> "unset",
   pending |-> 0, debounce |-> 0]

Icons == 1 .. NumIcons

\* A feature section with n icons before initializeFontAwesome is called:
\* no icon font is available yet, no container carries a class, no timer
\* is set.
NoIcons(n) ==
  [total |-> n, called |-> FALSE, resolved |-> FALSE, timeout |-> FALSE,
   loadedCount |-> 0,
   fontReady |-> [i \in Icons |-> FALSE],
   checkInterval |-> [i \in Icons |-> FALSE],
   cleanup |-> [i \in Icons |-> FALSE],
   handled |-> [i \in Icons |-> 0],
   classes |-> [i \in Icons |-> {}]]

\* The navigation after init() in a window w px wide: the menu is closed
\* and the markup says so; no handler has run (last names the handler
\* that ran last, before whether the menu was open when it started), no
\* resize timeout is set.
ClosedMenu(w) ==
  [isMobileMenuOpen |-> FALSE, activeSection |-> 0,
   ariaExpanded |-> "false", ariaHidden |-> "true",
   menuActive |-> FALSE, toggleActive |-> FALSE, overflow |-> "",
   innerWidth |-> w, resizeTimeout |-> FALSE, last |-> "none",
   before |-> FALSE]

\* navigationState after initNavigation, with the location hash and the
\* number of pending timeouts that reset the scrolling flag (they fire in
\* the order they were set: timers > 0 says that the one set by the most
\* recent smooth-scroll click has not fired).
FreshNavigation ==
  [mobileMenuOpen |-> FALSE, activeSection |-> 0, scrolling |-> FALSE,
   hash |-> 0, timers |-> 0]

\* The scripts modelled one record each are not on a page of kind p.
NoLater(p) ==
  /\ IF p = "startup" THEN TRUE ELSE startup = FreshDocument
  /\ IF p = "form" THEN TRUE ELSE form = FreshForm
  /\ IF p = "icons" THEN TRUE ELSE icons = NoIcons(0)
  /\ IF p = "menu" THEN TRUE ELSE menu = ClosedMenu(MOBILE_BREAKPOINT)
  /\ IF p = "nav" THEN TRUE ELSE nav = FreshNavigation

Pow2(n) == IF n = 0 THEN 1 ELSE IF n = 1 THEN 2 ELSE IF n = 2 THEN 4 ELSE 8

\* img.matches('img[data-src], img[data-srcset]')
Matches(i) == attrs[i] # {}

\* A loadImage() call that has not been made (idle) or has returned (done).
\* pc: where the call stands; attempts: the local `attempts` of the running
\* loadImageWithRetry; cap: the attributes loadImageSource read; wait: the
\* last backoff delay this call slept.
IdleLoad == [pc |-> "idle", attempts |-> 0, cap |-> {}, wait |-> 0]
DoneLoad == [pc |-> "done", attempts |-> 0, cap |-> {}, wait |-> 0]

\* Loads of image i that hold a temporary Image request or a backoff sleep.
InFlight(i) == {k \in Slots : load[i][k].pc \in {"attempt", "sleep"}}

\* A promise rejected synchronously by loadImageSource (no data-src and no
\* data-srcset): its catch handler is a microtask, due before the next task.
Rejected(i, k) == load[i][k].pc = "attempt" /\ load[i][k].cap = {}

\* No microtask is pending: the event loop may start the next task.
TaskBoundary ==
  /\ mutations = <<>>
  /\ \A i \in Imgs : \A k \in Slots : ~Rejected(i, k)

\* Mutant of BackoffDelay: computed from the counter after its increment.
BackoffDelay_FromNext(attempts) == Min(1000 * Pow2(attempts + 1), 5000)

\* Math.min(1000 * Math.pow(2, attempts), 5000)
BackoffDelay(attempts) == Min(1000 * Pow2(attempts), 5000)

\* ----------------------------------------------------------- LazyLoader

\* loadImageWithRetry entry: read the counter, then loadImageSource reads the
\* attributes and either rejects at once or starts a temporary Image request.
StartAttempt(i, wait) ==
  [pc |-> "attempt", attempts |-> retryAttempts[i], cap |-> attrs[i],
   wait |-> wait]

\* applyPlaceholder
applyPlaceholder(st, i) ==
  [st EXCEPT !.classList[i] = @ \cup {placeholderClass},
             !.src[i] = IF @ = "none" THEN "placeholder" ELSE @]

\* images.add(img); observer.observe(img); applyPlaceholder(img)
\* With this.observer null, observe raises a TypeError after images.add.
Register(st, i) ==
  IF st.observer
  THEN applyPlaceholder([st EXCEPT !.images = @ \cup {i},
                                   !.observed = @ \cup {i}], i)
  ELSE [st EXCEPT !.images = @ \cup {i}, !.abort = TRUE]

\* The part of the state the registration paths work on.
RegState ==
  [observer |-> observer, images |-> images, observed |-> observed,
   classList |-> classList, src |-> src, abort |-> FALSE]

\* observeImages: querySelectorAll in document order, guarded by images.has.
RECURSIVE observeFrom(_, _)
observeFrom(st, i) ==
  IF i > NumImgs \/ st.abort THEN st
  ELSE IF inDoc[i] /\ Matches(i) /\ i \notin st.images
       THEN observeFrom(Register(st, i), i + 1)
       ELSE observeFrom(st, i + 1)

observeImages == observeFrom(RegState, 1)

\* Mutant of AddedNode: the descendants of an added node are not searched.
AddedNode_NodeOnly(st, rec) ==
  IF st.abort \/ ~Matches(rec.img) \/ rec.nested THEN st
  ELSE Register(st, rec.img)

\* The MutationObserver callback on one added node: the node itself when it
\* matches (no images.has guard), else its nested images (guarded).
AddedNode(st, rec) ==
  IF st.abort \/ ~Matches(rec.img) THEN st
  ELSE IF rec.nested
       THEN (IF rec.img \in st.images THEN st ELSE Register(st, rec.img))
       ELSE Register(st, rec.img)

RECURSIVE deliver(_, _)
deliver(st, recs) ==
  IF recs = <<>> THEN st
  ELSE deliver(AddedNode(st, Head(recs)), Tail(recs))

ApplyReg(st) ==
  /\ images' = st.images
  /\ observed' = st.observed
  /\ classList' = st.classList
  /\ src' = st.src
  /\ thrown' = (thrown \/ st.abort)

\* loadImage's guard: the only early return is on loadedImages.
AlreadyHandled(i) == i \in loadedImages

\* async loadImage(img) up to its first await.
loadImage(i) ==
  IF AlreadyHandled(i)
  THEN UNCHANGED <<observed, classList, load>>
  ELSE \E k \in Slots :
         /\ load[i][k].pc = "idle"
         /\ \A j \in Slots : j < k => load[i][j].pc # "idle"
         /\ observed' = observed \ {i}
         /\ classList' = [classList EXCEPT
                            ![i] = (@ \ {placeholderClass}) \cup {loadingClass}]
         /\ load' = [load EXCEPT ![i][k] = StartAttempt(i, 0)]

\* The IntersectionObserver callback, one intersecting entry.
IntersectionCallback(i) ==
  /\ page = "lazy"
  /\ observer /\ i \in observed /\ inDoc[i]
  /\ TaskBoundary
  /\ loadImage(i)
  /\ UNCHANGED <<notLazy, observer, contentWatcher, images,
                 loadedImages, retryAttempts, inDoc, attrs, src, srcset,
                 events, mutations, thrown, destroyed, dynamic>>

\* loadImageNow(img), called by page code.
loadImageNow(i) ==
  /\ page = "lazy"
  /\ observer /\ i \in images
  /\ loadImage(i)
  /\ UNCHANGED <<notLazy, observer, contentWatcher, images,
                 loadedImages, retryAttempts, inDoc, attrs, src, srcset,
                 events, mutations, thrown, destroyed, dynamic>>

\* onImageLoaded
onImageLoaded(i) ==
  /\ loadedImages' = loadedImages \cup {i}
  /\ classList' = [classList EXCEPT
                     ![i] = (@ \ {loadingClass}) \cup {loadedClass}]
  /\ events' = [events EXCEPT ![i].loaded = @ + 1]

\* Mutant of onImageError: the loading class is left on the image.
onImageError_KeepsLoading(i) ==
  /\ classList' = [classList EXCEPT ![i] = @ \cup {errorClass}]
  /\ events' = [events EXCEPT ![i].error = @ + 1]

\* onImageError
onImageError(i) ==
  /\ classList' = [classList EXCEPT
                     ![i] = (@ \ {loadingClass}) \cup {errorClass}]
  /\ events' = [events EXCEPT ![i].error = @ + 1]

\* tempImg.onload, then the continuations of loadImageWithRetry and loadImage
\* (retryAttempts.delete, onImageLoaded).
AttemptSucceeds(i, k) ==
  /\ page = "lazy"
  /\ load[i][k].pc = "attempt" /\ load[i][k].cap # {}
  /\ TaskBoundary
  /\ attrs' = [attrs EXCEPT ![i] = @ \ load[i][k].cap]
  /\ srcset' = [srcset EXCEPT ![i] = @ \/ ("data-srcset" \in load[i][k].cap)]
  /\ src' = [src EXCEPT ![i] = IF "data-src" \in load[i][k].cap
                               THEN "real" ELSE @]
  /\ retryAttempts' = [retryAttempts EXCEPT ![i] = 0]
  /\ onImageLoaded(i)
  /\ load' = [load EXCEPT ![i][k] = DoneLoad]
  /\ UNCHANGED <<notLazy, observer, observed, contentWatcher,
                 images, inDoc, mutations, thrown, destroyed, dynamic>>

\* Mutant of MayRetry: one retry more (<= for <).
MayRetry_OneMore(attempts) == attempts <= maxRetries

\* The retry test of loadImageWithRetry's catch block.
MayRetry(attempts) == attempts < maxRetries

\* tempImg.onerror (or the synchronous rejection), then the catch block of
\* loadImageWithRetry: retry after a backoff sleep, or rethrow into
\* loadImage's catch, which runs onImageError.
AttemptFails(i, k) ==
  /\ page = "lazy"
  /\ load[i][k].pc = "attempt"
  /\ TaskBoundary \/ Rejected(i, k)
  /\ IF MayRetry(load[i][k].attempts)
     THEN /\ retryAttempts' = [retryAttempts EXCEPT
                                 ![i] = load[i][k].attempts + 1]
          /\ load' = [load EXCEPT
                        ![i][k].pc = "sleep",
                        ![i][k].wait = BackoffDelay(load[i][k].attempts)]
          /\ UNCHANGED <<classList, events>>
     ELSE /\ onImageError(i)
          /\ load' = [load EXCEPT ![i][k] = DoneLoad]
          /\ UNCHANGED retryAttempts
  /\ UNCHANGED <<notLazy, observer, observed, contentWatcher,
                 images, loadedImages, inDoc, attrs, src, srcset, mutations,
                 thrown, destroyed, dynamic>>

\* The setTimeout of sleep() fires: return this.loadImageWithRetry(img).
BackoffElapses(i, k) ==
  /\ page = "lazy"
  /\ load[i][k].pc = "sleep"
  /\ TaskBoundary
  /\ load' = [load EXCEPT
                ![i][k] = StartAttempt(i, load[i][k].wait)]
  /\ UNCHANGED <<notLazy, observer, observed, contentWatcher,
                 images, loadedImages, retryAttempts, inDoc, attrs, src,
                 srcset, classList, events, mutations, thrown, destroyed, dynamic>>

\* refresh(): observeImages()
LL_refresh ==
  /\ page = "lazy"
  /\ ApplyReg(observeImages)
  /\ UNCHANGED <<notLazy, observer, contentWatcher, loadedImages,
                 retryAttempts, inDoc, attrs, srcset, events, load,
                 mutations, destroyed, dynamic>>

\* destroy(), called once by page code.
LL_destroy ==
  /\ page = "lazy"
  /\ ~destroyed
  /\ observer' = FALSE
  /\ observed' = {}
  /\ images' = {}
  /\ loadedImages' = {}
  /\ retryAttempts' = [i \in Imgs |-> 0]
  /\ destroyed' = TRUE
  /\ UNCHANGED <<notLazy, contentWatcher, inDoc, attrs, src,
                 srcset, classList, events, load, mutations, thrown, dynamic>>

\* Page code attaches node i under document.body, as the added node itself
\* or inside an added container; a live MutationObserver queues a record.
InsertNode(i, nested) ==
  /\ page = "lazy"
  /\ ~inDoc[i]
  /\ Len(mutations) < MaxPending
  /\ inDoc' = [inDoc EXCEPT ![i] = TRUE]
  /\ dynamic' = dynamic \cup {i}
  /\ mutations' = IF contentWatcher
                  THEN Append(mutations, [img |-> i, nested |-> nested])
                  ELSE mutations
  /\ UNCHANGED <<notLazy, observer, observed, contentWatcher,
                 images, loadedImages, retryAttempts, attrs, src, srcset,
                 classList, events, load, thrown, destroyed>>

\* Page code detaches node i (removedNodes are ignored by the callback).
RemoveNode(i) ==
  /\ page = "lazy"
  /\ inDoc[i]
  /\ inDoc' = [inDoc EXCEPT ![i] = FALSE]
  /\ UNCHANGED <<notLazy, observer, observed, contentWatcher,
                 images, loadedImages, retryAttempts, attrs, src, srcset,
                 classList, events, load, mutations, thrown, destroyed, dynamic>>

\* Page code removes data-src and data-srcset from node i (the loader reads
\* them again at every attempt; attribute changes are not watched).
StripDataAttributes(i) ==
  /\ page = "lazy"
  /\ Matches(i)
  /\ attrs' = [attrs EXCEPT ![i] = {}]
  /\ UNCHANGED <<notLazy, observer, observed, contentWatcher,
                 images, loadedImages, retryAttempts, inDoc, src, srcset,
                 classList, events, load, mutations, thrown, destroyed, dynamic>>

\* The callback of setupMutationObserver, delivered with the queued records.
MutationCallback ==
  /\ page = "lazy"
  /\ mutations # <<>>
  /\ ApplyReg(deliver(RegState, mutations))
  /\ mutations' = <<>>
  /\ UNCHANGED <<notLazy, observer, contentWatcher, loadedImages,
                 retryAttempts, inDoc, attrs, srcset, events, load,
                 destroyed, dynamic>>

\* Mutant of Promoted: the fallback only warns, no image is touched.
Promoted_Nothing(a0, d) == a0

\* loadAllImagesImmediately: promote the attributes of every matching image.
Promoted(a0, d) == [i \in Imgs |-> IF i \in d THEN {} ELSE a0[i]]

\* The state after `new LazyLoader()`: init() has run on a document holding
\* the images d, each with attributes a0[i].
InitLazy ==
  /\ page = "lazy"
  /\ NoAvatars
  /\ NoApp
  /\ NoLater(page)
  /\ ioSupported \in BOOLEAN
  /\ reducedMotion = FALSE
  /\ NoAnimationManager
  /\ NoWorkflowController
  /\ NoCards
  /\ NoPerformance
  /\ \E d \in SUBSET Imgs : \E a0 \in [Imgs -> (SUBSET DataAttrs) \ {{}}] :
       /\ inDoc = [i \in Imgs |-> i \in d]
       /\ IF ioSupported
          THEN /\ attrs = a0
               /\ images = d
               /\ observed = d
               /\ classList = [i \in Imgs |->
                                 IF i \in d THEN {placeholderClass} ELSE {}]
               /\ src = [i \in Imgs |->
                           IF i \in d THEN "placeholder" ELSE "none"]
               /\ srcset = [i \in Imgs |-> FALSE]
          ELSE /\ attrs = Promoted(a0, d)
               /\ images = {}
               /\ observed = {}
               /\ classList = [i \in Imgs |-> {}]
               /\ src = [i \in Imgs |->
                           IF i \in d /\ "data-src" \in a0[i]
                           THEN "real" ELSE "none"]
               /\ srcset = [i \in Imgs |-> i \in d /\ "data-srcset" \in a0[i]]
  /\ observer = ioSupported
  /\ contentWatcher = ioSupported
  /\ loadedImages = {}
  /\ retryAttempts = [i \in Imgs |-> 0]
  /\ events = [i \in Imgs |-> [loaded |-> 0, error |-> 0]]
  /\ load = [i \in Imgs |-> [k \in Slots |-> IdleLoad]]
  /\ mutations = <<>>
  /\ thrown = FALSE
  /\ destroyed = FALSE
  /\ dynamic = {}

NextLazy ==
  \/ \E i \in Imgs : IntersectionCallback(i)
  \/ \E i \in Imgs : loadImageNow(i)
  \/ \E i \in Imgs : \E k \in Slots : AttemptSucceeds(i, k)
  \/ \E i \in Imgs : \E k \in Slots : AttemptFails(i, k)
  \/ \E i \in Imgs : \E k \in Slots : BackoffElapses(i, k)
  \/ LL_refresh
  \/ LL_destroy
  \/ \E i \in Imgs : \E nested \in BOOLEAN : InsertNode(i, nested)
  \/ \E i \in Imgs : RemoveNode(i)
  \/ \E i \in Imgs : StripDataAttributes(i)
  \/ MutationCallback

SpecLazy == InitLazy /\ [][NextLazy]_vars

\* A pending step of load k of image i: the temporary Image settles (onload
\* or onerror), or the timeout of sleep() fires.
Settles(i, k) ==
  AttemptSucceeds(i, k) \/ AttemptFails(i, k) \/ BackoffElapses(i, k)

\* The event loop: every request settles, every timeout fires and every
\* queued callback is run.
FairLazy ==
  /\ SpecLazy
  /\ \A i \in Imgs : \A k \in Slots : SF_vars(Settles(i, k))
  /\ WF_vars(MutationCallback)

\* ------------------------------------------- LazyLoader of performance.js

\* The part of the state loadImage works on.
PerfState == [classList |-> classList, load |-> load, full |-> FALSE]

\* loadImage(img): nothing without data-src and data-srcset; else the loading
\* class and a temporary Image request (no retry in this loader).
PerfLoadImage(st, i) ==
  IF attrs[i] = {} THEN st
  ELSE IF \A k \in Slots : st.load[i][k].pc # "idle"
       THEN [st EXCEPT !.full = TRUE]
       ELSE LET k == CHOOSE n \in Slots :
                       /\ st.load[i][n].pc = "idle"
                       /\ \A m \in Slots : m < n => st.load[i][m].pc # "idle"
            IN [st EXCEPT
                  !.classList[i] = @ \cup {loadingClass},
                  !.load[i][k] = [pc |-> "attempt", attempts |-> 0,
                                  cap |-> attrs[i], wait |-> 0]]

\* document.querySelectorAll('img[data-src], img[data-srcset]').forEach(
\*   loadImage ), from image i on.
RECURSIVE PerfLoadFrom(_, _)
PerfLoadFrom(st, i) ==
  IF i > NumImgs THEN st
  ELSE IF inDoc[i] /\ Matches(i)
       THEN PerfLoadFrom(PerfLoadImage(st, i), i + 1)
       ELSE PerfLoadFrom(st, i + 1)

\* loadAllImages
loadAllImages == PerfLoadFrom(PerfState, 1)

\* initialize(), called once
PF_initialize ==
  /\ page = "perf"
  /\ pfInit = "none"
  /\ IF ~ioSupported
     THEN /\ ~loadAllImages.full
          /\ classList' = loadAllImages.classList
          /\ load' = loadAllImages.load
          /\ pfInit' = "false"
          /\ UNCHANGED observer
     ELSE /\ observer' = TRUE
          /\ pfInit' = "true"
          /\ UNCHANGED <<classList, load>>
  /\ UNCHANGED <<notPerf, observed, contentWatcher, images, loadedImages,
                 retryAttempts, inDoc, attrs, src, srcset, events, mutations,
                 thrown, destroyed, dynamic, loadedCount, errorCount>>

\* observe(): track every matching image; observe it, or without an observer
\* load it at once.
PF_observe ==
  /\ page = "perf"
  /\ images' = images \cup {i \in Imgs : inDoc[i] /\ Matches(i)}
  /\ IF observer
     THEN /\ observed' = observed \cup {i \in Imgs : inDoc[i] /\ Matches(i)}
          /\ UNCHANGED <<classList, load>>
     ELSE /\ ~loadAllImages.full
          /\ classList' = loadAllImages.classList
          /\ load' = loadAllImages.load
          /\ UNCHANGED observed
  /\ UNCHANGED <<notPerf, observer, contentWatcher, loadedImages,
                 retryAttempts, inDoc, attrs, src, srcset, events, mutations,
                 thrown, destroyed, dynamic, perfVars>>

\* handleIntersection with one intersecting entry.
PF_handleIntersection(i) ==
  /\ page = "perf"
  /\ observer /\ i \in observed /\ inDoc[i]
  /\ ~PerfLoadImage(PerfState, i).full
  /\ classList' = PerfLoadImage(PerfState, i).classList
  /\ load' = PerfLoadImage(PerfState, i).load
  /\ observed' = observed \ {i}
  /\ UNCHANGED <<notPerf, observer, contentWatcher, images, loadedImages,
                 retryAttempts, inDoc, attrs, src, srcset, events, mutations,
                 thrown, destroyed, dynamic, perfVars>>

\* tempImg.onload: handleImageLoad
PF_handleImageLoad(i, k) ==
  /\ page = "perf"
  /\ load[i][k].pc = "attempt"
  /\ srcset' = [srcset EXCEPT ![i] = @ \/ ("data-srcset" \in load[i][k].cap)]
  /\ src' = [src EXCEPT ![i] = IF "data-src" \in load[i][k].cap
                               THEN "real" ELSE @]
  /\ classList' = [classList EXCEPT
                     ![i] = (@ \ {loadingClass}) \cup {loadedClass}]
  /\ attrs' = [attrs EXCEPT ![i] = {}]
  /\ loadedCount' = loadedCount + 1
  /\ load' = [load EXCEPT ![i][k] = DoneLoad]
  /\ UNCHANGED <<notPerf, observer, observed, contentWatcher, images,
                 loadedImages, retryAttempts, inDoc, events, mutations,
                 thrown, destroyed, dynamic, pfInit, errorCount>>

\* tempImg.onerror: handleImageError
PF_handleImageError(i, k) ==
  /\ page = "perf"
  /\ load[i][k].pc = "attempt"
  /\ classList' = [classList EXCEPT
                     ![i] = (@ \ {loadingClass}) \cup {errorClass}]
  /\ errorCount' = errorCount + 1
  /\ load' = [load EXCEPT ![i][k] = DoneLoad]
  /\ UNCHANGED <<notPerf, observer, observed, contentWatcher, images,
                 loadedImages, retryAttempts, inDoc, attrs, src, srcset,
                 events, mutations, thrown, destroyed, dynamic, pfInit,
                 loadedCount>>

\* destroy()
PF_destroy ==
  /\ page = "perf"
  /\ observer' = FALSE
  /\ observed' = {}
  /\ images' = {}
  /\ destroyed' = TRUE
  /\ UNCHANGED <<notPerf, contentWatcher, loadedImages, retryAttempts, inDoc,
                 attrs, src, srcset, classList, events, load, mutations,
                 thrown, dynamic, perfVars>>

\* The state after `new LazyLoader()` in performance.js: nothing is wired;
\* the document holds the images d, each with some data attribute.
InitPerf ==
  /\ page = "perf"
  /\ NoAvatars
  /\ NoApp
  /\ NoLater(page)
  /\ ioSupported \in BOOLEAN
  /\ reducedMotion = FALSE
  /\ inDoc \in [Imgs -> BOOLEAN]
  /\ attrs \in [Imgs -> (SUBSET DataAttrs) \ {{}}]
  /\ observer = FALSE /\ observed = {} /\ contentWatcher = FALSE
  /\ images = {} /\ loadedImages = {}
  /\ retryAttempts = [i \in Imgs |-> 0]
  /\ src = [i \in Imgs |-> "none"]
  /\ srcset = [i \in Imgs |-> FALSE]
  /\ classList = [i \in Imgs |-> {}]
  /\ events = [i \in Imgs |-> [loaded |-> 0, error |-> 0]]
  /\ load = [i \in Imgs |-> [k \in Slots |-> IdleLoad]]
  /\ mutations = <<>> /\ thrown = FALSE /\ destroyed = FALSE
  /\ dynamic = {}
  /\ NoPerformance
  /\ NoAnimationManager
  /\ NoWorkflowController
  /\ NoCards

NextPerf ==
  \/ PF_initialize
  \/ PF_observe
  \/ \E i \in Imgs : PF_handleIntersection(i)
  \/ \E i \in Imgs : \E k \in Slots : PF_handleImageLoad(i, k)
  \/ \E i \in Imgs : \E k \in Slots : PF_handleImageError(i, k)
  \/ PF_destroy

SpecPerf == InitPerf /\ [][NextPerf]_vars

\* A page running one of the two lazy loaders.
InitLoaders == InitLazy \/ InitPerf
NextLoaders == NextLazy \/ NextPerf
SpecLoaders == InitLoaders /\ [][NextLoaders]_vars

\* ------------------------------------------------------ AnimationManager

\* getAnimatableElements, in list order.
Index(e) == Cardinality({f \in amInDoc : f < e})

\* showAllElements
showAllElements ==
  /\ amClass' = [e \in Elems |->
                   IF e \in amInDoc THEN amClass[e] \cup {visibleClass}
                   ELSE amClass[e]]
  /\ amDelay' = [e \in Elems |-> IF e \in amInDoc THEN -1 ELSE amDelay[e]]

\* prepareElements on the observer obs, observing the targets in `before`.
prepareElements(before) ==
  /\ amClass' = [e \in Elems |->
                   IF e \in amInDoc THEN amClass[e] \cup {animateClass}
                   ELSE amClass[e]]
  /\ amDelay' = [e \in Elems |->
                   IF e \in amInDoc /\ staggerDelay > 0
                   THEN Index(e) * staggerDelay ELSE amDelay[e]]
  /\ amObserved' = before \cup amInDoc

\* init()'s guard.
InitRefused == isInitialized

\* What may throw inside init()'s try block: the IntersectionObserver
\* constructor (setupObserver, on the configured rootMargin / threshold), or
\* a DOM call of the prepareElements loop.
InitFaults == {"none", "setupObserver", "prepareElements"}

\* Mutant of InitCatches: init() has no try / catch.
InitCatches_Not == FALSE

\* init() wraps setupObserver() and prepareElements() in try / catch.
InitCatches == TRUE

\* init(); `fault` says where its try block throws, if it does.
AM_init(fault) ==
  /\ page = "anim"
  /\ IF InitRefused
     THEN /\ fault = "none"
          /\ UNCHANGED <<amClass, amDelay, amObserver, amObserved,
                         isInitialized, amThrown>>
     ELSE IF reducedMotion \/ ~ioSupported
     THEN /\ fault = "none"
          /\ showAllElements
          /\ UNCHANGED <<amObserver, amObserved, isInitialized, amThrown>>
     ELSE CASE fault = "none" ->
                 /\ amObserver' = TRUE
                 /\ prepareElements({})
                 /\ isInitialized' = TRUE
                 /\ UNCHANGED amThrown
            [] fault = "setupObserver" ->
                 /\ IF InitCatches
                    THEN showAllElements /\ UNCHANGED amThrown
                    ELSE amThrown' = TRUE /\ UNCHANGED <<amClass, amDelay>>
                 /\ UNCHANGED <<amObserver, amObserved, isInitialized>>
            [] OTHER ->
                 \* the loop throws at the element of index j: the elements
                 \* before it are prepared and stay observed
                 /\ amInDoc # {}
                 /\ \E j \in 0..(Cardinality(amInDoc) - 1) :
                      /\ amObserver' = TRUE
                      /\ amObserved' = {e \in amInDoc : Index(e) < j}
                      /\ IF InitCatches
                         THEN /\ amClass' = [e \in Elems |->
                                   IF e \notin amInDoc THEN amClass[e]
                                   ELSE amClass[e] \cup {visibleClass} \cup
                                        (IF Index(e) < j THEN {animateClass}
                                         ELSE {})]
                              /\ amDelay' = [e \in Elems |->
                                   IF e \in amInDoc THEN -1 ELSE amDelay[e]]
                              /\ UNCHANGED amThrown
                         ELSE /\ amClass' = [e \in Elems |->
                                   IF e \in amInDoc /\ Index(e) < j
                                   THEN amClass[e] \cup {animateClass}
                                   ELSE amClass[e]]
                              /\ amDelay' = [e \in Elems |->
                                   IF e \in amInDoc /\ Index(e) < j
                                      /\ staggerDelay > 0
                                   THEN Index(e) * staggerDelay
                                   ELSE amDelay[e]]
                              /\ amThrown' = TRUE
                 /\ UNCHANGED isInitialized
  /\ UNCHANGED <<notAnim, reducedMotion, staggerDelay, animatedElements,
                 amInDoc, inView, reveals, entered, amDestroyed>>

\* Mutant of AlreadyAnimated: the animatedElements.has guard is missing.
AlreadyAnimated_Never(e) == FALSE

\* animateElement's guard.
AlreadyAnimated(e) == e \in animatedElements

\* handleIntersection with one intersecting entry: animateElement(target).
handleIntersection(e) ==
  /\ page = "anim"
  /\ amObserver /\ e \in amObserved /\ e \in inView
  /\ entered' = [entered EXCEPT ![e] = Bump(@)]
  /\ IF AlreadyAnimated(e)
     THEN UNCHANGED <<amClass, animatedElements, amObserved, reveals>>
     ELSE /\ amClass' = [amClass EXCEPT ![e] = @ \cup {visibleClass}]
          /\ animatedElements' = animatedElements \cup {e}
          /\ amObserved' = amObserved \ {e}
          /\ reveals' = [reveals EXCEPT ![e] = Bump(@)]
  /\ UNCHANGED <<notAnim, amThrown, reducedMotion, staggerDelay, amObserver,
                 isInitialized, amInDoc, amDelay, inView, amDestroyed>>

\* refresh()
AM_refresh ==
  /\ page = "anim"
  /\ IF ~isInitialized
     THEN UNCHANGED <<amClass, amDelay, amObserved>>
     ELSE prepareElements(amObserved)
  /\ UNCHANGED <<notAnim, amThrown, reducedMotion, staggerDelay, amObserver,
                 animatedElements, isInitialized, amInDoc, inView, reveals,
                 entered, amDestroyed>>

\* destroy()
AM_destroy ==
  /\ page = "anim"
  /\ isInitialized
  /\ amObserver' = FALSE
  /\ amObserved' = {}
  /\ animatedElements' = {}
  /\ amClass' = [e \in Elems |-> IF e \in amInDoc THEN {} ELSE amClass[e]]
  /\ amDelay' = [e \in Elems |-> IF e \in amInDoc THEN -1 ELSE amDelay[e]]
  /\ isInitialized' = FALSE
  /\ amDestroyed' = TRUE
  /\ reveals' = [e \in Elems |-> 0]
  /\ entered' = [e \in Elems |-> 0]
  /\ UNCHANGED <<notAnim, amThrown, reducedMotion, staggerDelay, amInDoc, inView>>

\* The user scrolls: element e enters or leaves the viewport.  (An entry
\* with isIntersecting false changes nothing in handleIntersection.)
Scroll(e) ==
  /\ page = "anim"
  /\ e \in amInDoc
  /\ inView' = IF e \in inView THEN inView \ {e} ELSE inView \cup {e}
  /\ UNCHANGED <<notAnim, amThrown, reducedMotion, staggerDelay, amObserver,
                 amObserved, animatedElements, isInitialized, amInDoc,
                 amClass, amDelay, reveals, entered, amDestroyed>>

\* Page code adds an element matching the selectors.
AddElement(e) ==
  /\ page = "anim"
  /\ e \notin amInDoc
  /\ amInDoc' = amInDoc \cup {e}
  /\ UNCHANGED <<notAnim, amThrown, reducedMotion, staggerDelay, amObserver,
                 amObserved, animatedElements, isInitialized, amClass,
                 amDelay, inView, reveals, entered, amDestroyed>>

\* The user changes the reduced-motion setting (prefersReducedMotion() reads
\* it when init() runs; the module registers no change listener).
AM_PreferenceChanges ==
  /\ page = "anim"
  /\ reducedMotion' = ~reducedMotion
  /\ UNCHANGED <<notAnim, amVars>>

\* The state after `new AnimationManager(config)`: nothing is wired yet.
InitAnim ==
  /\ page = "anim"
  /\ NoAvatars
  /\ NoApp
  /\ NoLater(page)
  /\ ioSupported \in BOOLEAN
  /\ reducedMotion \in BOOLEAN
  /\ staggerDelay \in {-100, 0, 100}
  /\ amInDoc \in SUBSET Elems
  /\ amObserver = FALSE /\ amObserved = {}
  /\ animatedElements = {} /\ isInitialized = FALSE
  /\ amClass = [e \in Elems |-> {}]
  /\ amDelay = [e \in Elems |-> -1]
  /\ inView = {}
  /\ reveals = [e \in Elems |-> 0]
  /\ entered = [e \in Elems |-> 0]
  /\ amDestroyed = FALSE
  /\ amThrown = FALSE
  /\ NoLazyLoader
  /\ NoWorkflowController
  /\ NoCards
  /\ NoPerformance

NextAnim ==
  \/ \E fault \in InitFaults : AM_init(fault)
  \/ \E e \in Elems : handleIntersection(e)
  \/ AM_refresh
  \/ AM_destroy
  \/ \E e \in Elems : Scroll(e)
  \/ \E e \in Elems : AddElement(e)
  \/ AM_PreferenceChanges

SpecAnim == InitAnim /\ [][NextAnim]_vars

\* ------------------------------------------- WorkflowAnimationController

STEP_ANIMATION_DELAY == 200
CONNECTOR_ANIMATION_DELAY == 150

\* Steps and connectors by their 0-based index in this.steps / this.connectors.
Steps == 0..(nSteps - 1)
Connectors == 0..(nConnectors - 1)

\* intersectionRatio values (percent) an entry may carry.
Ratios == {0, 25, 100}

Timer(kind, idx, due) == [kind |-> kind, idx |-> idx, due |-> due]

\* _skipAnimations
_skipAnimations ==
  /\ stepVisible' = Steps
  /\ stepAnimated' = Steps
  /\ connectorActive' = Connectors
  /\ hasAnimated' = TRUE
  /\ isAnimating' = FALSE

\* _triggerStepAnimations' guard.
RunRefused == isAnimating \/ hasAnimated

\* _triggerStepAnimations
_triggerStepAnimations ==
  IF RunRefused
  THEN UNCHANGED <<isAnimating, hasAnimated, timers, runs>>
  ELSE /\ isAnimating' = TRUE
       /\ hasAnimated' = TRUE
       /\ timers' = timers \cup
            {Timer("step", i, now + i * STEP_ANIMATION_DELAY) : i \in Steps}
       /\ runs' = Bump(runs)

\* The IntersectionObserver callback on the section, one entry of ratio r.
Workflow_Intersection(r) ==
  /\ page = "workflow"
  /\ wfObserver
  /\ IF r >= 25
     THEN /\ triggers' = Bump(triggers)
          /\ IF ~hasAnimated
             THEN _triggerStepAnimations
             ELSE UNCHANGED <<isAnimating, hasAnimated, timers, runs>>
     ELSE UNCHANGED <<triggers, isAnimating, hasAnimated, timers, runs>>
  /\ UNCHANGED <<notWorkflow, reducedMotion, wfConstructed, wfStatic, nSteps,
                 nConnectors, stepVisible, stepAnimated, connectorActive,
                 iconAnimated, wfObserver, prefersReducedMotion, now,
                 stepFiredAt, wfDestroyed>>

\* Mutant of StepFollowUps: the connector timeout is set for every step.
StepFollowUps_AlwaysConnector(index, t) ==
  {Timer("connector", index, t + CONNECTOR_ANIMATION_DELAY)}
  \cup
  (IF index = nSteps - 1
   THEN {Timer("complete", index, t + CONNECTOR_ANIMATION_DELAY)} ELSE {})

\* The timeouts set by _animateStep(step, index).
StepFollowUps(index, t) ==
  (IF index < nConnectors
   THEN {Timer("connector", index, t + CONNECTOR_ANIMATION_DELAY)} ELSE {})
  \cup
  (IF index = nSteps - 1
   THEN {Timer("complete", index, t + CONNECTOR_ANIMATION_DELAY)} ELSE {})

\* How long after its due time a timeout may run: setTimeout's delay is a
\* minimum, the callback waits for the main thread to be free.
Lateness == {0, MaxLate}

\* A timeout of animationTimeouts fires: the earliest one that is due, at
\* its due time or `late` ms after it.
TimerFires(t, late) ==
  /\ page = "workflow"
  /\ t \in timers
  /\ \A u \in timers : t.due <= u.due
  /\ now' = (IF t.due > now THEN t.due ELSE now) + late
  /\ CASE t.kind = "step" ->
            /\ stepVisible' = stepVisible \cup {t.idx}
            /\ iconAnimated' = iconAnimated \cup {t.idx}
            /\ timers' = (timers \ {t}) \cup StepFollowUps(t.idx, now')
            /\ stepFiredAt' = [stepFiredAt EXCEPT ![t.idx] = now']
            /\ UNCHANGED <<connectorActive, isAnimating, stepAnimated>>
       [] t.kind = "connector" ->
            /\ connectorActive' = connectorActive \cup {t.idx}
            /\ timers' = timers \ {t}
            /\ UNCHANGED <<stepVisible, iconAnimated, isAnimating,
                           stepAnimated, stepFiredAt>>
       [] OTHER ->
            /\ isAnimating' = FALSE
            /\ stepAnimated' = stepAnimated \cup {t.idx}
            /\ timers' = timers \ {t}
            /\ UNCHANGED <<stepVisible, iconAnimated, connectorActive,
                           stepFiredAt>>
  /\ UNCHANGED <<notWorkflow, reducedMotion, wfConstructed, wfStatic, nSteps,
                 nConnectors, wfObserver, hasAnimated, prefersReducedMotion,
                 runs, triggers, wfDestroyed>>

\* Mutant of SkipOnChange: the test on isAnimating is inverted.
SkipOnChange_WhenIdle == prefersReducedMotion' /\ ~isAnimating

\* The handler's test for finishing a run in progress.
SkipOnChange == prefersReducedMotion' /\ isAnimating

\* The user changes the reduced-motion setting; on a constructed controller
\* the 'change' listener that _checkReducedMotion put on the media query runs.
Workflow_MotionChange ==
  /\ page = "workflow"
  /\ reducedMotion' = ~reducedMotion
  /\ IF wfConstructed
     THEN /\ prefersReducedMotion' = reducedMotion'
          /\ IF SkipOnChange
             THEN _skipAnimations
             ELSE UNCHANGED <<stepVisible, stepAnimated, connectorActive,
                              hasAnimated, isAnimating>>
     ELSE UNCHANGED <<prefersReducedMotion, stepVisible, stepAnimated,
                      connectorActive, hasAnimated, isAnimating>>
  /\ UNCHANGED <<notWorkflow, wfConstructed, wfStatic, nSteps, nConnectors,
                 iconAnimated, wfObserver, timers, now, runs, triggers,
                 stepFiredAt, wfDestroyed>>

\* Mutant of ClearedTimeouts: the array is emptied without clearTimeout.
ClearedTimeouts_StillPending == timers

\* The timeouts still pending once destroy() has run clearTimeout on every
\* id of animationTimeouts.
ClearedTimeouts == {}

\* destroy()
Workflow_destroy ==
  /\ page = "workflow"
  /\ wfConstructed
  /\ timers' = ClearedTimeouts
  /\ wfObserver' = FALSE
  /\ isAnimating' = FALSE
  /\ hasAnimated' = FALSE
  /\ wfDestroyed' = TRUE
  /\ UNCHANGED <<notWorkflow, reducedMotion, wfConstructed, wfStatic, nSteps,
                 nConnectors, stepVisible, stepAnimated, connectorActive,
                 iconAnimated, prefersReducedMotion, now, runs, triggers,
                 stepFiredAt>>

\* Mutant of InitSkips: _init() tests the static class only.
InitSkips_StaticOnly == wfStatic

\* _init()'s two early returns: the static class, the reduced-motion setting.
InitSkips == wfStatic \/ prefersReducedMotion'

\* initWorkflowAnimations: `new WorkflowAnimationController(section)`, that
\* is the field initialisers, _checkReducedMotion() and _init().
initWorkflowAnimations ==
  /\ page = "workflow"
  /\ ~wfConstructed
  /\ wfConstructed' = TRUE
  /\ prefersReducedMotion' = reducedMotion
  /\ IF InitSkips
     THEN /\ _skipAnimations
          /\ UNCHANGED wfObserver
     ELSE /\ wfObserver' = TRUE
          /\ UNCHANGED <<stepVisible, stepAnimated, connectorActive,
                         hasAnimated, isAnimating>>
  /\ UNCHANGED <<notWorkflow, reducedMotion, wfStatic, nSteps, nConnectors,
                 iconAnimated, timers, now, runs, triggers, stepFiredAt,
                 wfDestroyed>>

\* The document holding the workflow section, before DOMContentLoaded.
InitWorkflow ==
  /\ page = "workflow"
  /\ NoAvatars
  /\ NoApp
  /\ NoLater(page)
  /\ ioSupported = TRUE
  /\ reducedMotion \in BOOLEAN
  /\ wfStatic \in BOOLEAN
  /\ nSteps \in 0..MaxSteps
  /\ nConnectors \in 0..MaxSteps
  /\ wfConstructed = FALSE
  /\ prefersReducedMotion = FALSE
  /\ stepVisible = {} /\ stepAnimated = {} /\ connectorActive = {}
  /\ hasAnimated = FALSE
  /\ wfObserver = FALSE
  /\ iconAnimated = {}
  /\ isAnimating = FALSE
  /\ timers = {} /\ now = 0
  /\ stepFiredAt = [s \in 0..(MaxSteps - 1) |-> -1]
  /\ runs = 0 /\ triggers = 0 /\ wfDestroyed = FALSE
  /\ NoLazyLoader
  /\ NoAnimationManager
  /\ NoCards
  /\ NoPerformance

NextWorkflow ==
  \/ initWorkflowAnimations
  \/ \E r \in Ratios : Workflow_Intersection(r)
  \/ \E t \in timers : \E late \in Lateness : TimerFires(t, late)
  \/ Workflow_MotionChange
  \/ Workflow_destroy

SpecWorkflow == InitWorkflow /\ [][NextWorkflow]_vars

\* A page running the animations script or the workflow script.
InitReveal == InitAnim \/ InitWorkflow
NextReveal == NextAnim \/ NextWorkflow
SpecReveal == InitReveal /\ [][NextReveal]_vars

\* --------------------------------------------------- card reveal observers

ANIMATION_DELAY_INCREMENT == 150
STAGGER_DELAY == 100

\* The card's position in the `cards` NodeList taken at initialization.
Ordinal(c) == c - 1

\* The entries of one callback, in the order the observer queued them: the
\* position of card c among them.
EntryIndex(c) == Cardinality({d \in cardPending : d < c})

\* The delay handed to setTimeout for an intersecting entry:
\* features.js: Array.from(cards).indexOf(card) * ANIMATION_DELAY_INCREMENT;
\* pricing: (index of the entry in `entries`) * STAGGER_DELAY.
StaggerFor(c) ==
  IF cardKind = "features"
  THEN Ordinal(c) * ANIMATION_DELAY_INCREMENT
  ELSE EntryIndex(c) * STAGGER_DELAY

\* The IntersectionObserver callback with the queued entries.
CardsCallback ==
  /\ page = "cards"
  /\ cardPending # {}
  /\ cardDelay' = [c \in Cards |->
                     IF c \in cardPending /\ c \in cardInView
                     THEN StaggerFor(c) ELSE cardDelay[c]]
  /\ cardTimers' = cardTimers \cup (cardPending \cap cardInView)
  /\ cardObserved' = cardObserved \ (cardPending \cap cardInView)
  /\ cardPending' = {}
  /\ UNCHANGED <<notCards, cardKind, cardInit, cardInView, cardShown>>

\* The reveal timeout of a card fires.
CardTimerFires(c) ==
  /\ page = "cards"
  /\ c \in cardTimers
  /\ cardTimers' = cardTimers \ {c}
  /\ cardShown' = cardShown \cup {c}
  /\ UNCHANGED <<notCards, cardKind, cardInit, cardObserved, cardInView, cardPending,
                 cardDelay>>

\* The user scrolls: card c enters or leaves the viewport; the observer
\* queues an entry for an observed card (one queued entry per card).
CardScroll(c) ==
  /\ page = "cards"
  /\ c \notin cardPending
  /\ cardInView' = IF c \in cardInView THEN cardInView \ {c}
                   ELSE cardInView \cup {c}
  /\ cardPending' = IF c \in cardObserved THEN cardPending \cup {c}
                    ELSE cardPending
  /\ UNCHANGED <<notCards, cardKind, cardInit, cardObserved, cardDelay, cardTimers,
                 cardShown>>

\* features.js areAnimationsEnabled() / the pricing support check.
CardsAnimated ==
  IF cardKind = "features" THEN ~reducedMotion ELSE ioSupported

\* Where the try block of initializeFeatures may throw.
FeatureFaults == {"none", "initializeFontAwesome",
                  "initializeScrollAnimations", "initializeHoverEffects"}

\* features.js initializeFeatures, from the call to the end of its
\* continuation after `await initializeFontAwesome()`.  features.js builds
\* its IntersectionObserver without a support check, so in a browser
\* without one initializeScrollAnimations throws a ReferenceError.
initializeFeatures(fault) ==
  /\ page = "cards" /\ cardKind = "features" /\ cardInit = "pending"
  /\ LET early == \/ fault \in {"initializeFontAwesome",
                                "initializeScrollAnimations"}
                  \/ CardsAnimated /\ ~ioSupported
         wired == ~early /\ CardsAnimated
     IN  /\ cardObserved' = IF wired THEN Cards ELSE {}
         /\ cardPending' = IF wired THEN Cards ELSE {}
         /\ cardShown' = IF early \/ fault # "none" \/ ~CardsAnimated
                         THEN Cards ELSE {}
         /\ cardInit' = IF early \/ fault # "none" THEN "failed" ELSE "done"
  /\ UNCHANGED <<notCards, cardKind, cardInView, cardDelay, cardTimers>>

\* The pricing section's initializePricing: initializeScrollAnimations(section).
initializePricing ==
  /\ page = "cards" /\ cardKind = "pricing" /\ cardInit = "pending"
  /\ IF CardsAnimated
     THEN cardObserved' = Cards /\ cardPending' = Cards /\ cardShown' = {}
     ELSE cardObserved' = {} /\ cardPending' = {} /\ cardShown' = Cards
  /\ cardInit' = "done"
  /\ UNCHANGED <<notCards, cardKind, cardInView, cardDelay, cardTimers>>

\* The document is parsed and the section's script has been evaluated; its
\* initializer has not run yet.
InitCards ==
  /\ page = "cards"
  /\ NoAvatars
  /\ NoApp
  /\ NoLater(page)
  /\ ioSupported \in BOOLEAN
  /\ reducedMotion \in BOOLEAN
  /\ cardKind \in {"features", "pricing"}
  /\ cardInit = "pending"
  /\ cardInView \in SUBSET Cards
  /\ cardObserved = {} /\ cardPending = {} /\ cardShown = {}
  /\ cardDelay = [c \in Cards |-> -1]
  /\ cardTimers = {}
  /\ NoLazyLoader
  /\ NoAnimationManager
  /\ NoWorkflowController
  /\ NoPerformance

NextCards ==
  \/ \E fault \in FeatureFaults : initializeFeatures(fault)
  \/ initializePricing
  \/ CardsCallback
  \/ \E c \in Cards : CardTimerFires(c)
  \/ \E c \in Cards : CardScroll(c)

SpecCards == InitCards /\ [][NextCards]_vars

\* C14: the stagger delay applied to a card when it enters the viewport is
\* its ordinal position among the cards registered at initialization times
\* the stagger interval, whenever it enters and whatever other entries the
\* same callback delivers.
C14_DelayFromFixedOrdinal ==
  \A c \in Cards :
    cardDelay[c] # -1
    => cardDelay[c] = Ordinal(c) * (IF cardKind = "features"
                                    THEN ANIMATION_DELAY_INCREMENT
                                    ELSE STAGGER_DELAY)

\* ------------------------------------------- testimonial avatars (hero.js)

RETRY_ATTEMPTS == 3
RETRY_DELAY == 1000

LOADING_CLASS == "testimonial-card__avatar--loading"
ERROR_CLASS == "testimonial-card__avatar--error"

\* The data URI handleImageLoad puts in src after the last failure.
PlaceholderURI == "data:image/svg+xml"

\* Mutant of MoreAttempts: the comparison admits one more attempt.
MoreAttempts_OneMore(attempt) == attempt <= RETRY_ATTEMPTS

\* handleImageLoad's test after a failed attempt: wait and try again.
MoreAttempts(attempt) == attempt < RETRY_ATTEMPTS

\* The catch block of handleImageLoad after attempt r.attempt was rejected.
AttemptFailed(r, cause) ==
  IF MoreAttempts(r.attempt)
  THEN [r EXCEPT !.pc = "sleeping",
                 !.wait = RETRY_DELAY * r.attempt,
                 !.failures = Append(@, cause)]
  ELSE [r EXCEPT !.pc = "failed",
                 !.class = (@ \ {LOADING_CLASS}) \cup {ERROR_CLASS},
                 !.src = PlaceholderURI,
                 !.img = "pending",
                 !.failures = Append(@, cause)]

\* The 'load' listener of attempt k runs.
handleLoad(r, k) ==
  [r EXCEPT !.listeners = @ \ {k},
            !.class = @ \ {LOADING_CLASS},
            !.pc = IF r.pc = "loading" /\ r.attempt = k THEN "done" ELSE @]

\* The 'error' listener of attempt k runs.
handleError(r, k) ==
  LET q == [r EXCEPT !.listeners = @ \ {k}]
  IN  IF r.pc = "loading" /\ r.attempt = k THEN AttemptFailed(q, "error") ELSE q

\* loadImageWithRetry(img, k) up to the return of its promise: the listeners
\* are added, then the request is restarted, or, on a complete element, the
\* matching handler runs at once.
loadImageWithRetry(r, k) ==
  LET q == [r EXCEPT !.pc = "loading", !.attempt = k,
                     !.listeners = @ \cup {k}]
  IN  IF r.img = "pending"
      THEN [q EXCEPT !.class = @ \cup {LOADING_CLASS}]
      ELSE IF r.img = "ok" THEN handleLoad(q, k) ELSE handleError(q, k)

\* Every listener still attached runs, oldest first.
RECURSIVE RunListeners(_, _, _)
RunListeners(r, k, ok) ==
  IF k > RETRY_ATTEMPTS + 1 THEN r
  ELSE RunListeners(IF k \in r.listeners
                    THEN (IF ok THEN handleLoad(r, k) ELSE handleError(r, k))
                    ELSE r,
                    k + 1, ok)

\* optimizeImageLoading(images): handleImageLoad on every image that is not
\* loaded yet, each up to its first await.
optimizeImageLoading ==
  /\ page = "hero"
  /\ \A a \in Avatars : avatar[a].pc = "idle"
  /\ avatar' = [a \in Avatars |->
                  IF avatar[a].img = "ok"
                  THEN [avatar[a] EXCEPT !.pc = "skipped"]
                  ELSE loadImageWithRetry(avatar[a], 1)]
  /\ UNCHANGED notHero

\* The request of image a ends: the element fires 'load' (ok) or 'error'.
ImageSettles(a, ok) ==
  /\ page = "hero"
  /\ avatar[a].img = "pending"
  /\ avatar' = [avatar EXCEPT ![a] =
       LET q == [@ EXCEPT !.img = IF ok THEN "ok" ELSE "broken"]
       IN  \* a rejection by the last listener restarts the request with
           \* the placeholder
           RunListeners(q, 1, ok)]
  /\ UNCHANGED notHero

\* The IMAGE_LOAD_TIMEOUT timeout of the attempt in progress fires: the
\* promise is rejected, the attempt's listeners stay attached.
LoadTimeout(a) ==
  /\ page = "hero"
  /\ avatar[a].pc = "loading"
  /\ avatar' = [avatar EXCEPT ![a] = AttemptFailed(@, "timeout")]
  /\ UNCHANGED notHero

\* The delay between two attempts is over: the loop's next iteration.
NextAttempt(a) ==
  /\ page = "hero"
  /\ avatar[a].pc = "sleeping"
  /\ avatar' = [avatar EXCEPT ![a] = loadImageWithRetry(@, @.attempt + 1)]
  /\ UNCHANGED notHero

\* The testimonials section is in the document; initTestimonials has not
\* called optimizeImageLoading yet.
InitHero ==
  /\ page = "hero"
  /\ ioSupported = TRUE
  /\ reducedMotion = FALSE
  /\ avatar \in [Avatars -> {IdleAvatar(g) : g \in {"pending", "ok", "broken"}}]
  /\ NoLazyLoader
  /\ NoAnimationManager
  /\ NoWorkflowController
  /\ NoCards
  /\ NoPerformance
  /\ NoApp
  /\ NoLater(page)

NextHero ==
  \/ optimizeImageLoading
  \/ \E a \in Avatars : \E ok \in BOOLEAN : ImageSettles(a, ok)
  \/ \E a \in Avatars : LoadTimeout(a)
  \/ \E a \in Avatars : NextAttempt(a)

SpecHero == InitHero /\ [][NextHero]_vars

\* --------------------------- application entry point (main.js, part_006)

MAX_RETRIES == 3
APP_RETRY_DELAY == 1000

\* How the awaited initialization of one attempt can end.  init() of
\* src/js/main.js awaits initializeModules(), which catches every module's
\* error; initializeApp of part_006 races initializeModules() against the
\* INIT_TIMEOUT timeout, and its set-up calls may throw.
Outcomes ==
  IF appMain = "init" THEN {"ok"} ELSE {"ok", "error", "timeout"}

\* Mutant of MayRetryInit: the comparison admits one more retry.
MayRetryInit_OneMore(retryCount) == retryCount <= MAX_RETRIES

\* initializeApp's test in its catch block.
MayRetryInit(retryCount) == retryCount < MAX_RETRIES

\* The guard of init() / initializeApp().
AlreadyInitialized == initialized

\* init() or initializeApp(n) up to its first await: the guard, then the
\* module initializers are started.
Enter(r, n) ==
  IF AlreadyInitialized
  THEN [r EXCEPT !.pc = "refused"]
  ELSE [r EXCEPT !.pc = "modules", !.retryCount = n,
                 !.attempts = Min(@ + 1, MAX_RETRIES + 2)]

\* Page code (the script's own DOMContentLoaded handler first) calls the
\* entry-point initializer.
App_Call(c) ==
  /\ page = "app"
  /\ call[c].pc = "idle"
  /\ \A d \in Calls : d < c => call[d].pc # "idle"
  /\ call' = [call EXCEPT ![c] = Enter(@, 0)]
  /\ UNCHANGED <<notApp, appMain, initialized>>

\* The await of call c's attempt ends.
App_Settle(c, outcome) ==
  /\ page = "app"
  /\ call[c].pc = "modules"
  /\ outcome \in Outcomes
  /\ IF outcome = "ok"
     THEN /\ initialized' = TRUE
          /\ call' = [call EXCEPT ![c].pc = "done", ![c].ready = @ + 1]
     ELSE /\ UNCHANGED initialized
          /\ IF MayRetryInit(call[c].retryCount)
             THEN call' = [call EXCEPT ![c].pc = "sleep",
                                       ![c].wait = APP_RETRY_DELAY]
             ELSE call' = [call EXCEPT ![c].pc = "failed",
                                       ![c].failed = @ + 1]
  /\ UNCHANGED <<notApp, appMain>>

\* The RETRY_DELAY timeout of call c fires: initializeApp(retryCount + 1).
App_Retry(c) ==
  /\ page = "app"
  /\ call[c].pc = "sleep"
  /\ call' = [call EXCEPT ![c] = Enter(@, @.retryCount + 1)]
  /\ UNCHANGED <<notApp, appMain, initialized>>

\* The main script has been evaluated; no call has been made yet.
InitApp ==
  /\ page = "app"
  /\ ioSupported = TRUE
  /\ reducedMotion = FALSE
  /\ appMain \in {"init", "initializeApp"}
  /\ initialized = FALSE
  /\ call = [c \in Calls |-> IdleCall]
  /\ NoLazyLoader
  /\ NoAnimationManager
  /\ NoWorkflowController
  /\ NoCards
  /\ NoPerformance
  /\ NoAvatars
  /\ NoLater(page)

NextApp ==
  \/ \E c \in Calls : App_Call(c)
  \/ \E c \in Calls : \E outcome \in {"ok", "error", "timeout"} :
       App_Settle(c, outcome)
  \/ \E c \in Calls : App_Retry(c)

SpecApp == InitApp /\ [][NextApp]_vars

\* The event loop: every awaited promise settles (INIT_TIMEOUT bounds the
\* race) and every RETRY_DELAY timeout fires.
FairApp ==
  /\ SpecApp
  /\ \A c \in Calls :
       /\ WF_vars(\E outcome \in {"ok", "error", "timeout"} :
                    App_Settle(c, outcome))
       /\ WF_vars(App_Retry(c))

\* ------------------- lazy-loading auto-initialization (part_008, main.js)

\* part_008 initLazyLoading(): while the document is loading it registers a
\* DOMContentLoaded listener and returns undefined; else it returns a new
\* LazyLoader.
initLazyLoading(st) ==
  IF ~st.ready
  THEN [st EXCEPT !.listeners = @ + 1, !.lazyLoader = "undefined"]
  ELSE [st EXCEPT !.instances = @ + 1, !.lazyLoader = "instance"]

\* src/js/main.js initLazyLoading: typeof window.lazyLoader !== 'undefined'
ModuleFound(st) == st.lazyLoader = "instance"

\* src/js/main.js init() up to its first await: initializeModules() runs
\* initLazyLoading, the module of priority 1.
Main_init(st) ==
  [st EXCEPT !.main = "ran",
             !.lazyModule = IF ModuleFound(st) THEN "registered" ELSE "error"]

\* The page evaluates the lazy-loading script: the auto-initialization at
\* the end of part_008.
Lazy_Evaluate ==
  /\ page = "startup"
  /\ startup.evals < MaxEvals
  /\ startup' =
       LET st == [startup EXCEPT !.evals = @ + 1]
       IN  IF st.lazyLoader = "instance" THEN st ELSE initLazyLoading(st)
  /\ UNCHANGED notStartup

\* The page evaluates src/js/main.js: init() runs now, or is registered for
\* DOMContentLoaded while the document is loading.
Main_Evaluate ==
  /\ page = "startup"
  /\ startup.main = "absent"
  /\ startup' = IF startup.ready THEN Main_init(startup)
                ELSE [startup EXCEPT !.main = "waiting"]
  /\ UNCHANGED notStartup

\* The document has been parsed: the DOMContentLoaded listeners run (those
\* of initLazyLoading construct a LazyLoader each and drop it).
DOMContentLoaded ==
  /\ page = "startup"
  /\ ~startup.ready
  /\ startup' =
       LET st == [startup EXCEPT !.ready = TRUE,
                                 !.instances = @ + startup.listeners,
                                 !.listeners = 0]
       IN  IF st.main = "waiting" THEN Main_init(st) ELSE st
  /\ UNCHANGED notStartup

InitStartup ==
  /\ page = "startup"
  /\ ioSupported \in BOOLEAN
  /\ reducedMotion = FALSE
  /\ startup = FreshDocument
  /\ NoLazyLoader
  /\ NoAnimationManager
  /\ NoWorkflowController
  /\ NoCards
  /\ NoPerformance
  /\ NoAvatars
  /\ NoApp
  /\ NoLater(page)

NextStartup ==
  \/ Lazy_Evaluate
  \/ Main_Evaluate
  \/ DOMContentLoaded

\* The page's start-up: the lazy-loading script and the main entry point.
InitBoot == InitStartup \/ InitApp
NextBoot == NextStartup \/ NextApp
SpecBoot == InitBoot /\ [][NextBoot]_vars

\* ------------------------------------- form validation module (part_006)

\* What a field can hold: nothing, text that is no e-mail address, an
\* e-mail address.
Values == {"empty", "text", "email"}

\* Field 1 is the e-mail input, the others are required text inputs.
validateField(f, v) ==
  IF f = 1 THEN v = "email" ELSE v # "empty"

\* updateFieldState: the class the field carries after a validation.
updateFieldState(ok) == IF ok THEN "valid" ELSE "error"

\* The form with field f validated against its current value.
Validated(fm, f) ==
  [fm EXCEPT !.class[f] = updateFieldState(validateField(f, fm.value[f]))]

\* validateForm: every field is marked touched and validated.
validateForm(fm) ==
  [fm EXCEPT !.touched = [f \in Fields |-> TRUE],
             !.class = [f \in Fields |->
                          updateFieldState(validateField(f, fm.value[f]))]]

FormValid(fm) == \A f \in Fields : validateField(f, fm.value[f])

\* The user edits field f: the input listener is the one debounced handler
\* all fields of the form share, which clears its timeout and sets it anew
\* for this event.
Field_Input(f, v) ==
  /\ page = "form"
  /\ v # form.value[f]
  /\ form' = [form EXCEPT !.value[f] = v, !.debounce = f]
  /\ UNCHANGED notForm

\* The debounce timeout fires: handleFieldInput for the last event.
Debounce_Fire ==
  /\ page = "form"
  /\ form.debounce # 0
  /\ form' =
       LET f == form.debounce
           fm == [form EXCEPT !.debounce = 0]
       IN  IF fm.touched[f] THEN Validated(fm, f) ELSE fm
  /\ UNCHANGED notForm

\* handleFieldBlur
Field_Blur(f) ==
  /\ page = "form"
  /\ form' = Validated([form EXCEPT !.touched[f] = TRUE], f)
  /\ UNCHANGED notForm

\* handleFormSubmit: a submit event on the form.
handleFormSubmit ==
  /\ page = "form"
  /\ FormValid(form) => form.pending < MaxSubmits
  /\ form' =
       LET fm == validateForm(form)
       IN  IF ~FormValid(form) THEN fm
           ELSE [fm EXCEPT !.disabled = TRUE,
                           !.originalText = fm.label,
                           !.label = "Submitting...",
                           !.pending = @ + 1]
  /\ UNCHANGED notForm

\* The 1500 ms timeout of a submission fires.
Submit_Complete ==
  /\ page = "form"
  /\ form.pending > 0
  /\ form' = [form EXCEPT !.pending = @ - 1,
                          !.value = [f \in Fields |-> "empty"],
                          !.class = [f \in Fields |-> "none"],
                          !.touched = [f \in Fields |-> FALSE],
                          !.disabled = FALSE,
                          !.label = form.originalText]
  /\ UNCHANGED notForm

InitForm ==
  /\ page = "form"
  /\ ioSupported \in BOOLEAN
  /\ reducedMotion = FALSE
  /\ form = FreshForm
  /\ NoLazyLoader
  /\ NoAnimationManager
  /\ NoWorkflowController
  /\ NoCards
  /\ NoPerformance
  /\ NoAvatars
  /\ NoApp
  /\ NoLater(page)

NextForm ==
  \/ \E f \in Fields, v \in Values : Field_Input(f, v)
  \/ Debounce_Fire
  \/ \E f \in Fields : Field_Blur(f)
  \/ handleFormSubmit
  \/ Submit_Complete

SpecForm == InitForm /\ [][NextForm]_vars

\* ------------------------ icon loading monitor (features.js 153-241)

\* The icons the section holds.
Present(ic) == 1 .. ic.total

\* handleIconLoad(icon, success): the container gets its class, and the
\* call that counts the last icon clears the timeout and resolves.
handleIconLoad(ic, i, success) ==
  LET n == ic.loadedCount + 1
      c == [ic EXCEPT !.classes[i] =
                        @ \cup {IF success THEN "icon-loaded" ELSE "icon-error"},
                      !.handled[i] = @ + 1,
                      !.loadedCount = n]
  IN  IF n = ic.total
      THEN [c EXCEPT !.timeout = FALSE, !.resolved = TRUE]
      ELSE c

\* icons.forEach of initializeFontAwesome for icons i .. total: an icon
\* whose font is there is handled at once, any other gets its polling
\* interval and its clean-up timeout.
RECURSIVE CheckEach(_, _)
CheckEach(ic, i) ==
  IF i > ic.total THEN ic
  ELSE CheckEach(IF ic.fontReady[i]
                 THEN handleIconLoad(ic, i, TRUE)
                 ELSE [ic EXCEPT !.checkInterval[i] = TRUE,
                                 !.cleanup[i] = TRUE],
                 i + 1)

\* The icon font of icon i becomes available (isIconLoaded turns true).
Font_Arrives(i) ==
  /\ page = "icons"
  /\ i \in Present(icons)
  /\ ~icons.fontReady[i]
  /\ icons' = [icons EXCEPT !.fontReady[i] = TRUE]
  /\ UNCHANGED notIcons

\* initializeFontAwesome()
initializeFontAwesome ==
  /\ page = "icons"
  /\ ~icons.called
  /\ icons' =
       LET ic == [icons EXCEPT !.called = TRUE]
       IN  IF ic.total = 0 THEN [ic EXCEPT !.resolved = TRUE]
           ELSE CheckEach([ic EXCEPT !.timeout = TRUE], 1)
  /\ UNCHANGED notIcons

\* A tick of icon i's polling interval (every 100 ms).
Interval_Tick(i) ==
  /\ page = "icons"
  /\ icons.checkInterval[i]
  /\ icons' = IF icons.fontReady[i]
              THEN handleIconLoad([icons EXCEPT !.checkInterval[i] = FALSE],
                                  i, TRUE)
              ELSE icons
  /\ UNCHANGED notIcons

\* The promise's timeout fires after ICON_LOAD_TIMEOUT.
Icons_Timeout ==
  /\ page = "icons"
  /\ icons.timeout
  /\ icons' = [icons EXCEPT !.timeout = FALSE, !.resolved = TRUE]
  /\ UNCHANGED notIcons

\* Icon i's clean-up timeout fires after ICON_LOAD_TIMEOUT: timeouts of
\* equal delay fire in the order they were set, the promise's first.
Icon_Cleanup(i) ==
  /\ page = "icons"
  /\ icons.cleanup[i]
  /\ ~icons.timeout
  /\ \A j \in 1 .. i - 1 : ~icons.cleanup[j]
  /\ icons' =
       LET ic == [icons EXCEPT !.cleanup[i] = FALSE,
                               !.checkInterval[i] = FALSE]
       IN  IF ~ic.fontReady[i] THEN handleIconLoad(ic, i, FALSE) ELSE ic
  /\ UNCHANGED notIcons

InitIcons ==
  /\ page = "icons"
  /\ ioSupported \in BOOLEAN
  /\ reducedMotion = FALSE
  /\ \E n \in 0 .. NumIcons : icons = NoIcons(n)
  /\ NoLazyLoader
  /\ NoAnimationManager
  /\ NoWorkflowController
  /\ NoCards
  /\ NoPerformance
  /\ NoAvatars
  /\ NoApp
  /\ NoLater(page)

NextIcons ==
  \/ \E i \in Icons : Font_Arrives(i)
  \/ initializeFontAwesome
  \/ \E i \in Icons : Interval_Tick(i)
  \/ Icons_Timeout
  \/ \E i \in Icons : Icon_Cleanup(i)

SpecIcons == InitIcons /\ [][NextIcons]_vars

\* ----------------------------- navigation module, mobile menu (part_004)

\* String(b)
String(b) == IF b THEN "true" ELSE "false"

\* Window widths below and at the mobile breakpoint.
Widths == {MOBILE_BREAKPOINT - 1, MOBILE_BREAKPOINT}

\* data-scroll-to targets of a link: 0 names a section that is not in the
\* document, the others name sections.
Targets == 0 .. NumSections

\* Mutant of updateMobileMenuState: closing leaves the body's overflow.
updateMobileMenuState_KeepsOverflow(m) ==
  [m EXCEPT !.ariaExpanded = String(m.isMobileMenuOpen),
            !.ariaHidden = String(~m.isMobileMenuOpen),
            !.menuActive = m.isMobileMenuOpen,
            !.toggleActive = m.isMobileMenuOpen,
            !.overflow = IF m.isMobileMenuOpen THEN "hidden" ELSE @]

\* updateMobileMenuState
updateMobileMenuState(m) ==
  [m EXCEPT !.ariaExpanded = String(m.isMobileMenuOpen),
            !.ariaHidden = String(~m.isMobileMenuOpen),
            !.menuActive = m.isMobileMenuOpen,
            !.toggleActive = m.isMobileMenuOpen,
            !.overflow = IF m.isMobileMenuOpen THEN "hidden" ELSE ""]

\* The statements that close an open menu, shared by four handlers.
CloseIfOpen(m) ==
  IF m.isMobileMenuOpen
  THEN updateMobileMenuState([m EXCEPT !.isMobileMenuOpen = FALSE])
  ELSE m

\* handleMenuToggle: a click on the toggle (it stops propagation).
handleMenuToggle ==
  /\ page = "menu"
  /\ menu' = updateMobileMenuState(
               [menu EXCEPT !.isMobileMenuOpen = ~@, !.last = "toggle",
                                                     !.before = menu.isMobileMenuOpen])
  /\ UNCHANGED notMenu

\* handleOutsideClick for a click inside or outside menu and toggle.
handleOutsideClick(m, inside) ==
  IF m.isMobileMenuOpen /\ ~inside
  THEN [CloseIfOpen(m) EXCEPT !.last = "outside"]
  ELSE m

\* handleSmoothScroll: a click on a [data-scroll-to] link, inside the menu
\* or elsewhere, naming target t; the click then reaches the document's
\* listener.
handleSmoothScroll(t, inside) ==
  /\ page = "menu"
  /\ menu' =
       IF t = 0
       THEN handleOutsideClick([menu EXCEPT !.last = "no target",
                                            !.before = menu.isMobileMenuOpen], inside)
       ELSE handleOutsideClick(
              [CloseIfOpen(menu) EXCEPT !.activeSection = t,
                                        !.last = "navigation",
                                        !.before = menu.isMobileMenuOpen],
              inside)
  /\ UNCHANGED notMenu

\* A click on anything else in the document.
Document_Click(inside) ==
  /\ page = "menu"
  /\ menu' = handleOutsideClick([menu EXCEPT !.last = "click",
                                             !.before = menu.isMobileMenuOpen], inside)
  /\ UNCHANGED notMenu

\* handleKeyboardNav
handleKeyboardNav(key) ==
  /\ page = "menu"
  /\ menu' = IF key = "Escape"
             THEN [CloseIfOpen(menu) EXCEPT !.last = "Escape",
                                            !.before = menu.isMobileMenuOpen]
             ELSE [menu EXCEPT !.last = "key",
                               !.before = menu.isMobileMenuOpen]
  /\ UNCHANGED notMenu

\* handleResize behind its throttle: the window is resized to w px. A call
\* the throttle lets through sets the 150 ms timeout anew; a call it drops
\* comes less than 100 ms after one that set it, so the timeout is pending
\* either way.
handleResize(w) ==
  /\ page = "menu"
  /\ w # menu.innerWidth
  /\ menu' = [menu EXCEPT !.innerWidth = w, !.resizeTimeout = TRUE,
                          !.last = "resize event",
                          !.before = menu.isMobileMenuOpen]
  /\ UNCHANGED notMenu

\* The resize timeout fires.
Resize_Fire ==
  /\ page = "menu"
  /\ menu.resizeTimeout
  /\ menu' =
       LET m == [menu EXCEPT !.resizeTimeout = FALSE, !.last = "resize",
                                                      !.before = menu.isMobileMenuOpen]
       IN  IF m.innerWidth >= MOBILE_BREAKPOINT THEN CloseIfOpen(m) ELSE m
  /\ UNCHANGED notMenu

InitMenu ==
  /\ page = "menu"
  /\ ioSupported \in BOOLEAN
  /\ reducedMotion = FALSE
  /\ \E w \in Widths : menu = ClosedMenu(w)
  /\ NoLazyLoader
  /\ NoAnimationManager
  /\ NoWorkflowController
  /\ NoCards
  /\ NoPerformance
  /\ NoAvatars
  /\ NoApp
  /\ NoLater(page)

NextMenu ==
  \/ handleMenuToggle
  \/ \E t \in Targets, inside \in BOOLEAN : handleSmoothScroll(t, inside)
  \/ \E inside \in BOOLEAN : Document_Click(inside)
  \/ \E key \in {"Escape", "Tab"} : handleKeyboardNav(key)
  \/ \E w \in Widths : handleResize(w)
  \/ Resize_Fire

SpecMenu == InitMenu /\ [][NextMenu]_vars

\* --------------------------- navigation module, smooth scroll (part_008)

\* handleMobileMenuToggle
handleMobileMenuToggle ==
  /\ page = "nav"
  /\ nav' = [nav EXCEPT !.mobileMenuOpen = ~@]
  /\ UNCHANGED notNav

\* A click on an a[href^="#"] link whose href names section t (0: no such
\* element): the menu's listeners close an open menu (the link's own when
\* it is a nav link, the document's when it is outside the nav), then
\* handleSmoothScroll runs.
Anchor_Click(t) ==
  /\ page = "nav"
  /\ t # 0 => nav.timers < MaxClicks
  /\ nav' =
       LET n == [nav EXCEPT !.mobileMenuOpen = FALSE]
       IN  IF t = 0 THEN n
           ELSE [n EXCEPT !.scrolling = TRUE, !.hash = t, !.timers = @ + 1]
  /\ UNCHANGED notNav

\* The oldest pending timeout of handleSmoothScroll fires, 1000 ms after
\* the click that set it.
Scrolling_Reset ==
  /\ page = "nav"
  /\ nav.timers > 0
  /\ nav' = [nav EXCEPT !.timers = @ - 1, !.scrolling = FALSE]
  /\ UNCHANGED notNav

\* handleIntersection for an entry of section s that is intersecting.
Nav_handleIntersection(s) ==
  /\ page = "nav"
  /\ nav' = IF nav.scrolling THEN nav
            ELSE [nav EXCEPT !.activeSection = s]
  /\ UNCHANGED notNav

InitNav ==
  /\ page = "nav"
  /\ ioSupported = TRUE
  /\ reducedMotion \in BOOLEAN
  /\ nav = FreshNavigation
  /\ NoLazyLoader
  /\ NoAnimationManager
  /\ NoWorkflowController
  /\ NoCards
  /\ NoPerformance
  /\ NoAvatars
  /\ NoApp
  /\ NoLater(page)

NextNav ==
  \/ handleMobileMenuToggle
  \/ \E t \in Targets : Anchor_Click(t)
  \/ Scrolling_Reset
  \/ \E s \in 1 .. NumSections : Nav_handleIntersection(s)

SpecNav == InitNav /\ [][NextNav]_vars

\* ------------------------------------------------------ LazyLoader claims

LoadStates == {loadingClass, loadedClass, errorClass}

\* C1: while an earlier load of an image is pending, a further loadImage call
\* starts no second attempt: at most one temporary Image request or backoff
\* sleep is in flight per image.
C1_OneAttemptInFlight == \A i \in Imgs : Cardinality(InFlight(i)) <= 1

\* C3: for an image whose attempts all fail, loaded by one loadImage call on
\* a loader that is not destroyed, attempt number maxRetries + 1 never
\* occurs (an attempt started with `attempts` completed attempts is attempt
\* number attempts + 1), and the backoff waits of the load never decrease.
C3_AtMostMaxRetriesAttempts ==
  [][\A i \in Imgs : \A k \in Slots :
       (~destroyed' /\ \A j \in Slots \ {k} : load'[i][j].pc = "idle")
       => /\ load'[i][k].pc = "attempt"
               => load'[i][k].attempts + 1 <= maxRetries
          /\ load'[i][k].pc = "sleep"
               => load'[i][k].wait >= load[i][k].wait]_vars

\* C4: after destroy(), the continuation of a load that was in flight or in
\* a backoff sleep starts no attempt, mutates no state, dispatches no event
\* and raises nothing.
C4_ContinuationAfterDestroyIsNoOp ==
  [][\A i \in Imgs : \A k \in Slots :
       (destroyed /\ load[i][k].pc \in {"attempt", "sleep"}
          /\ load'[i][k] # load[i][k])
       => /\ load'[i][k].pc \notin {"attempt", "sleep"}
          /\ UNCHANGED <<attrs, src, srcset, classList, loadedImages,
                         retryAttempts, events, thrown>>]_vars

\* C5: every image carries at most one of lazy-loading, lazy-loaded and
\* lazy-error.
C5_OneLoadStateClass ==
  \A i \in Imgs : Cardinality(classList[i] \cap LoadStates) <= 1

\* C6: once an image is marked errored, with no load of it left in flight
\* and without being registered again with the visibility observer, no
\* attempt is started for it and the error class stays.
C6_ErroredIsTerminal ==
  [][\A i \in Imgs :
       (errorClass \in classList[i] /\ InFlight(i) = {} /\ i \notin observed)
       => /\ errorClass \in classList'[i]
          /\ InFlight(i)' = {}]_vars

\* The nodes of the queued mutation records.
Added == {mutations[n].img : n \in 1..Len(mutations)}

\* C7: with IntersectionObserver supported and the loader not destroyed, the
\* content watcher's callback registers every new matching image it is
\* handed (added node or descendant of one): the image is in `images` and
\* observed, without refresh(); an image already tracked stays tracked.
C7_DynamicInsertionRegisters ==
  [][(ioSupported /\ ~destroyed /\ mutations # <<>> /\ mutations' = <<>>)
       => \A i \in Added :
            Matches(i) => /\ i \in images'
                          /\ i \notin images => i \in observed']_vars

\* C7 witness: a node attached after construction, delivered by the content
\* watcher, is tracked and observed; refresh() would find nothing to add.
C7_Witness ==
  \E i \in dynamic :
    /\ ~destroyed /\ mutations = <<>> /\ inDoc[i] /\ Matches(i)
    /\ i \in images /\ i \in observed
    /\ load[i] = [k \in Slots |-> IdleLoad]

\* C8: a tracked image is never registered a second time: no step observes
\* it again or re-applies the placeholder class.
C8_NoDoubleRegistration ==
  [][\A i \in images :
       /\ i \in observed' => i \in observed
       /\ placeholderClass \in classList'[i]
            => placeholderClass \in classList[i]]_vars

\* C9: after destroy() the delivery of an insertion to the content watcher
\* registers nothing, runs no loader logic and raises no exception.
C9_NoObservationAfterDestroy ==
  [][(destroyed /\ mutations # <<>> /\ mutations' = <<>>)
       => UNCHANGED <<images, observed, classList, src, thrown>>]_vars

\* C15: the wait before the retry that follows the k-th recorded failure
\* (k = 1, 2, 3, the value the per-image counter takes at that failure) is
\* min(1000 x 2^(k-1), 5000) ms: 1000, 2000, 4000; the first retry waits the
\* base delay.
C15_BackoffFormula ==
  [][\A i \in Imgs : \A k \in Slots :
       (load[i][k].pc = "attempt" /\ load'[i][k].pc = "sleep")
       => /\ retryAttempts'[i] \in 1..maxRetries
          /\ load'[i][k].wait = (CASE retryAttempts'[i] = 1 -> 1000
                                   [] retryAttempts'[i] = 2 -> 2000
                                   [] OTHER -> 4000)]_vars

\* C15 witness: a load sleeps its third backoff, of 4000 ms.
C15_Witness ==
  \E i \in Imgs : \E k \in Slots :
    load[i][k].pc = "sleep" /\ load[i][k].wait = 4000 /\ retryAttempts[i] = 3

\* C16: the counter of every image lies in 0..maxRetries (0: no entry); the
\* step in which a load of the image succeeds leaves no entry for it; the
\* destroy() step leaves no entry at all.
C16_RetryCounterState ==
  /\ [](\A i \in Imgs : retryAttempts[i] \in 0..maxRetries)
  /\ [][\A i \in Imgs :
          events'[i].loaded # events[i].loaded => retryAttempts'[i] = 0]_vars
  /\ [][(~destroyed /\ destroyed')
          => \A i \in Imgs : retryAttempts'[i] = 0]_vars

\* C16 witness: destroy() ran while a load was in a backoff sleep (its
\* failure had been counted) and the counter is gone.
C16_Witness ==
  \E i \in Imgs : \E k \in Slots :
    destroyed /\ load[i][k].pc = "sleep" /\ load[i][k].attempts = 2
              /\ retryAttempts[i] = 0

\* C17: every load that loadImage started ends (its requests settling and
\* its timeouts firing), and the step that ends it is exactly one of
\*   success: loading class cleared, loaded class set, the attributes it read
\*            promoted to src / srcset and removed, one 'lazyloaded' event;
\*   failure: loading class cleared, error class set, one 'lazyerror' event.
C17_LoadEndsInOneOutcome ==
  /\ \A i \in Imgs : \A k \in Slots :
       (load[i][k].pc \in {"attempt", "sleep"}) ~> (load[i][k].pc = "done")
  /\ [][\A i \in Imgs : \A k \in Slots :
          (load[i][k].pc \in {"attempt", "sleep"} /\ load'[i][k].pc = "done")
          => /\ loadingClass \notin classList'[i]
             /\ \/ /\ loadedClass \in classList'[i]
                   /\ attrs'[i] \cap load[i][k].cap = {}
                   /\ "data-src" \in load[i][k].cap => src'[i] = "real"
                   /\ "data-srcset" \in load[i][k].cap => srcset'[i]
                   /\ events'[i] = [loaded |-> events[i].loaded + 1,
                                    error |-> events[i].error]
                \/ /\ errorClass \in classList'[i]
                   /\ events'[i] = [loaded |-> events[i].loaded,
                                    error |-> events[i].error + 1]
                   /\ UNCHANGED <<attrs, src, srcset>>]_vars

\* C17 witness: the only load of an image has ended, in terminal failure,
\* after its retries.
C17_Witness ==
  \E i \in Imgs :
    /\ load[i][1].pc = "done"
    /\ \A k \in Slots \ {1} : load[i][k].pc = "idle"
    /\ retryAttempts[i] = maxRetries
    /\ events[i] = [loaded |-> 0, error |-> 1]

\* C18: a load of an image that has neither data-src nor data-srcset is a
\* no-op: no retry or backoff wait is started, the image is not marked
\* errored and no error event is dispatched.
C18_MissingReferenceIsNoOp ==
  [][\A i \in Imgs : \A k \in Slots :
       (Rejected(i, k) /\ load'[i][k] # load[i][k])
       => /\ load'[i][k].pc \notin {"attempt", "sleep"}
          /\ errorClass \in classList'[i] => errorClass \in classList[i]
          /\ events'[i].error = events[i].error]_vars

\* C19: without IntersectionObserver both loaders degrade at initialization:
\* no observer is created, nothing is raised, and every image matching
\* img[data-src], img[data-srcset] in the document starts loading at once
\* (lazy-loading module: attributes promoted by the constructor;
\* performance.js: initialize() returns false and has started a request for
\* each).
C19_UnsupportedDegradesToEager ==
  /\ []((page = "lazy" /\ ~ioSupported)
          => /\ ~observer /\ observed = {}
             /\ \A i \in Imgs :
                  (inDoc[i] /\ i \notin dynamic)
                  => ~Matches(i) /\ (src[i] = "real" \/ srcset[i])
             /\ dynamic = {} => ~thrown)
  /\ [][(page = "perf" /\ ~ioSupported /\ pfInit = "none" /\ pfInit' # "none")
          => /\ pfInit' = "false"
             /\ ~observer' /\ observed' = {} /\ ~thrown'
             /\ \A i \in Imgs :
                  (inDoc[i] /\ Matches(i))
                  => /\ loadingClass \in classList'[i]
                     /\ Cardinality(InFlight(i)') = Cardinality(InFlight(i)) + 1
        ]_vars

\* C19 witness: initialize() of performance.js has returned false and the
\* request it started for an image of the document is pending.
C19_Witness ==
  /\ page = "perf" /\ ~ioSupported /\ pfInit = "false" /\ ~observer
  /\ \E i \in Imgs :
       /\ inDoc[i] /\ Matches(i) /\ loadingClass \in classList[i]
       /\ load[i][1].pc = "attempt"
       /\ \A k \in Slots \ {1} : load[i][k].pc = "idle"

\* C20: a loader constructed without IntersectionObserver still picks up
\* matching images inserted later and loads them eagerly: once the insertion
\* has been delivered, the inserted image has its attributes promoted.
C20_DegradedModePicksUpInsertions ==
  (page = "lazy" /\ ~ioSupported)
  => \A i \in dynamic : (inDoc[i] /\ mutations = <<>>) => ~Matches(i)

\* ------------------------------------------------ reveal scheduler claims

\* C2: between init() and destroy() the AnimationManager reveals each element
\* at most once, whatever intersection entries and refresh() calls arrive;
\* the workflow controller starts its staged run at most once.
C2_RevealAtMostOnce ==
  /\ \A e \in Elems : reveals[e] <= 1
  /\ runs <= 1

\* C2 witness: an element revealed once has been handed to animateElement a
\* second time (re-observed by refresh(), intersecting again).
C2_Witness ==
  \E e \in Elems : isInitialized /\ reveals[e] = 1 /\ entered[e] >= 2

\* C10: destroyed is terminal: once destroy() has run on an initialized
\* AnimationManager, no later call creates an observer, registers an element
\* or changes an element class.
C10_DestroyedIsTerminal ==
  [][amDestroyed => UNCHANGED <<amObserver, amObserved, amClass>>]_vars

\* --------------------------------------- WorkflowAnimationController claims

\* C11: when the controller is constructed on a section carrying the static
\* class, or while the reduced-motion preference is active, the constructor
\* itself marks every step visible and animated and every connector active,
\* creates no visibility observer and schedules no timer.
C11_OverridesSkipAtConstruction ==
  [][(~wfConstructed /\ wfConstructed' /\ (wfStatic \/ reducedMotion))
       => /\ stepVisible' = Steps /\ stepAnimated' = Steps
          /\ connectorActive' = Connectors
          /\ ~wfObserver' /\ timers' = {}]_vars

\* C11 witness: a controller constructed under reduced motion alone (no
\* static class) on a full section: everything is shown, nothing observes.
C11_Witness ==
  /\ wfConstructed /\ ~wfDestroyed /\ ~wfStatic /\ prefersReducedMotion
  /\ nSteps = MaxSteps /\ nConnectors >= 1
  /\ stepVisible = Steps /\ stepAnimated = Steps
  /\ connectorActive = Connectors
  /\ ~wfObserver /\ timers = {} /\ triggers = 0

\* C12: when the reduced-motion preference becomes active while a staged run
\* is in progress, the change handler itself makes every step visible and
\* every connector active and ends the run.
C12_MotionChangeFinishesRun ==
  [][(wfConstructed /\ isAnimating /\ ~reducedMotion /\ reducedMotion')
       => /\ stepVisible' = Steps
          /\ connectorActive' = Connectors
          /\ ~isAnimating']_vars

\* C12 witness: the run was cut short: every step is visible although the
\* stagger timer of some step has not fired yet.
C12_Witness ==
  /\ prefersReducedMotion /\ runs = 1 /\ ~isAnimating
  /\ nSteps = MaxSteps /\ stepVisible = Steps
  /\ \E t \in timers : t.kind = "step" /\ stepFiredAt[t.idx] = -1

\* C13: in a staged run the k-th step (index k - 1) is revealed no earlier
\* than (k - 1) x 200 ms after the first step, and no step is revealed by
\* its timer before the step preceding it.
C13_StaggerFromFirstReveal ==
  \A k \in Steps :
    (k >= 1 /\ stepFiredAt[k] # -1)
    => /\ stepFiredAt[k - 1] # -1
       /\ stepFiredAt[k] - stepFiredAt[0] >= k * STEP_ANIMATION_DELAY

\* ------------------------------------------- initialization failure claims

\* The AnimationManager page or a card section, whichever the document holds.
InitFallible == InitAnim \/ InitCards
NextFallible == NextAnim \/ NextCards
SpecFallible == InitFallible /\ [][NextFallible]_vars

C21_FeaturesFailed ==
  /\ page = "cards" /\ cardKind = "features"
  /\ ~ioSupported /\ cardInit = "failed" /\ cardShown = Cards

\* ------------------------------------------------------------ refresh claims

\* A page with the LazyLoader of part_008 or with the AnimationManager.
InitRefresh == InitLazy \/ InitAnim
NextRefresh == NextLazy \/ NextAnim
SpecRefresh == InitRefresh /\ [][NextRefresh]_vars

\* C22: refresh() outside the active state (AnimationManager not
\* initialized; LazyLoader without an observer, after destroy() or in
\* unsupported mode) registers no element and throws nothing; in the active
\* state it registers only matching elements that are not registered yet.
C22_RefreshOnlyWhenActive ==
  [][/\ AM_refresh /\ ~isInitialized
        => UNCHANGED <<amObserved, amClass, amDelay>> /\ ~amThrown'
     /\ AM_refresh /\ isInitialized
        => /\ (amObserved' \ amObserved) \subseteq (amInDoc \ animatedElements)
           /\ ~amThrown'
     /\ LL_refresh /\ ~observer
        => UNCHANGED <<images, observed>> /\ thrown' = thrown
     /\ LL_refresh /\ observer
        => /\ (images' \ images)
                \subseteq {i \in Imgs : inDoc[i] /\ Matches(i)}
           /\ observed' \ observed = images' \ images
           /\ thrown' = thrown
    ]_vars

\* ------------------------------------------------------ staged run claims

\* C23: destroy() cancels every pending timer: once destroy() has run no
\* timer is pending, isAnimating is false, and no later step adds a class to
\* a step or a connector or starts an icon animation.
C23_DestroyCancelsTimers ==
  /\ [](wfDestroyed => timers = {} /\ ~isAnimating)
  /\ [][wfDestroyed
        => UNCHANGED <<stepVisible, stepAnimated, connectorActive,
                       iconAnimated>>]_vars

\* A run of two steps destroyed after the first reveal: the second step
\* and the completion marker never come.
C23_Witness ==
  /\ wfDestroyed /\ runs = 1 /\ nSteps = MaxSteps
  /\ stepVisible = {0} /\ stepAnimated = {}
  /\ now > STEP_ANIMATION_DELAY

\* C24: in a staged run connector i is activated only by the timeout set
\* when step i is revealed, CONNECTOR_ANIMATION_DELAY later: a connector
\* timeout exists only for a revealed step whose index is below the number
\* of connectors, a timeout step activates connector i only when step i is
\* visible and 150 ms have passed since its reveal, and an active connector
\* that has a step of its index has that step visible.
C24_ConnectorFollowsItsStep ==
  /\ [](\A i \in connectorActive : i \in Steps => i \in stepVisible)
  /\ [](\A t \in timers :
          t.kind = "connector"
          => /\ t.idx < nConnectors
             /\ t.idx \in stepVisible
             /\ t.due = stepFiredAt[t.idx] + CONNECTOR_ANIMATION_DELAY)
  /\ [][timers' # timers
        => \A i \in connectorActive' \ connectorActive :
             /\ Timer("connector", i,
                      stepFiredAt[i] + CONNECTOR_ANIMATION_DELAY) \in timers
             /\ i \in stepVisible
             /\ now' >= stepFiredAt[i] + CONNECTOR_ANIMATION_DELAY]_vars

\* A run of two steps with one connector: the timeout of step 0 has
\* activated it, step 1 is revealed and has set no connector timeout.
C24_Witness ==
  /\ runs = 1 /\ nSteps = 2 /\ nConnectors = 1 /\ ~prefersReducedMotion
  /\ stepVisible = {0, 1} /\ connectorActive = {0}
  /\ stepAnimated = {} /\ isAnimating
  /\ \A t \in timers : t.kind = "complete"

\* The event loop runs every timeout that is due.
FairWorkflow ==
  SpecWorkflow
  /\ WF_vars(\E t \in timers : \E late \in Lateness : TimerFires(t, late))

\* C25: every staged run that has been started is eventually marked
\* complete (isAnimating false again; destroy() does the same), whatever the
\* number of steps, zero included, and the completion timeout never marks it
\* before the last step has been revealed.
C25_RunCompletes ==
  /\ isAnimating ~> ~isAnimating
  /\ [][isAnimating /\ ~isAnimating' /\ timers' # timers /\ ~wfDestroyed'
        => (nSteps - 1) \in stepVisible]_vars

\* ------------------------------------------------------ configuration claims

\* C27: an AnimationManager built with an invalid configuration (a negative
\* staggerDelay) has raised an error at construction, before any element is
\* observed or modified: it never observes an element nor changes a class.
C27_InvalidConfigFailsFast ==
  page = "anim" /\ staggerDelay < 0
  => \/ amThrown
     \/ /\ ~amObserver /\ amObserved = {} /\ ~isInitialized
        /\ \A e \in Elems : amClass[e] = {}

\* ------------------------------------------------------ reduced-motion claims

\* C28: while the controller's reduced-motion preference is active no
\* timer-driven animation is performed: no step sets a stagger timeout, and
\* no timeout left over from an interrupted run reveals a step or starts an
\* icon or badge animation.
C28_ReducedMotionStopsTimers ==
  [][prefersReducedMotion
     => /\ \A t \in timers' \ timers : t.kind # "step"
        /\ timers' # timers
           => UNCHANGED <<stepVisible, iconAnimated>>]_vars

\* ---------------------------------------------------- avatar loading claims

Ended(r) == r.pc \in {"done", "failed", "skipped"}

\* C26: handleImageLoad attempts an image at most RETRY_ATTEMPTS = 3 times,
\* waiting 1000 ms after the first failure and 2000 ms after the second;
\* after the third failure, whichever failures they were, the loading class
\* is gone, the error class is set and src is the one placeholder data URI;
\* a success ends the sequence without the error state; once the sequence
\* has ended no further attempt is made.
C26_AvatarRetrySequence ==
  /\ [](\A a \in Avatars :
          LET r == avatar[a]
          IN  /\ r.attempt <= RETRY_ATTEMPTS
              /\ Len(r.failures) <= RETRY_ATTEMPTS
              /\ r.pc = "sleeping"
                 => /\ r.attempt = Len(r.failures)
                    /\ r.wait = (IF r.attempt = 1 THEN 1000 ELSE 2000)
              /\ r.pc = "failed"
                 => /\ Len(r.failures) = RETRY_ATTEMPTS
                    /\ LOADING_CLASS \notin r.class
                    /\ ERROR_CLASS \in r.class
                    /\ r.src = PlaceholderURI
              /\ r.pc = "done"
                 => /\ Len(r.failures) < RETRY_ATTEMPTS
                    /\ r.class = {}
                    /\ r.src = "avatar"
              /\ ERROR_CLASS \in r.class => r.pc = "failed")
  /\ [][\A a \in Avatars :
          Ended(avatar[a])
          => /\ avatar'[a].pc = avatar[a].pc
             /\ avatar'[a].attempt = avatar[a].attempt
             /\ avatar'[a].src = avatar[a].src
             /\ avatar'[a].class = avatar[a].class]_vars

\* One avatar failed three times, by a timeout and then twice on the
\* broken element, and the placeholder has loaded; the other loaded at its
\* second attempt.
C26_Witness ==
  /\ avatar[1].pc = "failed"
  /\ avatar[1].failures = <<"timeout", "error", "error">>
  /\ avatar[1].img = "ok"
  /\ avatar[2].pc = "done" /\ avatar[2].attempt = 2

\* ------------------------------------------------- application init claims

\* Call c is the only call that has started an attempt.
Sole(c) == \A d \in Calls \ {c} : call[d].attempts = 0

Returned(r) == r.pc \in {"done", "failed", "refused"}

\* C29: a call of initializeApp() makes at most MAX_RETRIES + 1 = 4
\* attempts, RETRY_DELAY after each failed one, and always returns; a failed
\* attempt never sets appState.initialized; the call, when no other call
\* runs beside it, ends with exactly one of 'app:initialized' (initialized
\* true) and 'app:init-failed' (initialized false), never both.
C29_InitializeAppTerminates ==
  /\ [](appMain = "initializeApp"
        => \A c \in Calls :
             LET r == call[c]
             IN  /\ r.attempts <= MAX_RETRIES + 1
                 /\ r.retryCount <= MAX_RETRIES
                 /\ r.pc = "sleep" => r.wait = 1000
                 /\ r.ready + r.failed <= 1
                 /\ Sole(c) /\ r.attempts > 0
                    => /\ r.ready = 1 => initialized /\ r.pc = "done"
                       /\ r.failed = 1
                          => /\ ~initialized /\ r.pc = "failed"
                             /\ r.attempts = MAX_RETRIES + 1
                       /\ Returned(r) => r.ready + r.failed = 1)
  /\ [][appMain = "initializeApp"
        => \A c \in Calls :
             call[c].pc = "modules" /\ call'[c].pc \in {"sleep", "failed"}
             => initialized' = initialized]_vars
  /\ \A c \in Calls :
       (appMain = "initializeApp" /\ call[c].attempts > 0)
         ~> Returned(call[c])

\* The script's call failed four times and dispatched 'app:init-failed'.
C29_Witness ==
  /\ appMain = "initializeApp"
  /\ call[1].pc = "failed" /\ call[1].attempts = 4 /\ call[1].failed = 1
  /\ call[1].ready = 0 /\ ~initialized
  /\ call[2].pc = "idle"

\* C30: however often the entry-point initializer is called, a second call
\* before the first has finished its awaits included, only one call runs the
\* module initializers and the ready event is dispatched at most once.
C30_InitOnceOnly ==
  /\ Cardinality({c \in Calls : call[c].attempts > 0}) <= 1
  /\ Cardinality({c \in Calls : call[c].ready > 0}) <= 1
  /\ \A c \in Calls : call[c].ready <= 1

\* ------------------------------------------ performance LazyLoader claims

\* The loadImage() calls that started a temporary Image request for image i.
LoadsStarted(i) == {k \in Slots : load[i][k].pc # "idle"}

\* C31: the LazyLoader of performance.js starts at most one load for each
\* deferred image, with IntersectionObserver and in the fallback path where
\* initialize() loads every image and observe() runs without an observer.
C31_OneLoadPerImage ==
  page = "perf" => \A i \in Imgs : Cardinality(LoadsStarted(i)) <= 1

\* C32: getStats() is consistent in every state: loaded + errors <= total,
\* that is pending = total - loaded - errors >= 0.
C32_StatsConsistent ==
  page = "perf" => Cardinality(images) - loadedCount - errorCount >= 0

\* ------------------------------------------------------- start-up claims

\* C33: once the DOM is ready and the lazy-loading script has been
\* evaluated, window.lazyLoader is the constructed LazyLoader, whether the
\* script ran before or after DOMContentLoaded; at most one LazyLoader is
\* ever constructed; and main.js's initLazyLoading registers the module
\* without recording an error.
C33_AutoInitPublishesLoader ==
  page = "startup"
  => /\ startup.ready /\ startup.evals > 0 => startup.lazyLoader = "instance"
     /\ startup.instances <= 1
     /\ startup.ready /\ startup.evals > 0 /\ startup.main = "ran"
        => startup.lazyModule = "registered"

\* ------------------------------------------------------------ form claims

\* C34: a submit event on an invalid form starts no submission and leaves
\* the button as it is; while a submission is pending the button is
\* disabled; and when a submission completes the button is enabled with
\* the label it had before the submission and no field carries validation
\* state, also when submit events overlap.
C34_SubmitDisablesUntilDone ==
  [][page = "form"
     => /\ handleFormSubmit /\ ~FormValid(form)
           => /\ form'.pending = form.pending
              /\ form'.disabled = form.disabled
        /\ handleFormSubmit /\ FormValid(form) => form'.disabled
        /\ form.pending > 0 /\ ~Submit_Complete => form'.disabled
        /\ Submit_Complete
           => /\ ~form'.disabled
              /\ form'.label = "own"
              /\ \A f \in Fields :
                   form'.class[f] = "none" /\ ~form'.touched[f]]_vars

\* C35: once the debounce window has passed without further input, every
\* touched field carries the class its current value validates to, also
\* after input events on different fields interleaved within the window.
C35_InputIsValidated ==
  page = "form" /\ form.debounce = 0
  => \A f \in Fields :
       form.touched[f]
       => form.class[f] = updateFieldState(validateField(f, form.value[f]))

\* ------------------------------------------------------------ icon claims

\* Every timer initializeFontAwesome set has fired or was cleared.
TimersDone ==
  /\ icons.called
  /\ ~icons.timeout
  /\ \A i \in Icons : ~icons.checkInterval[i] /\ ~icons.cleanup[i]

\* C36: once ICON_LOAD_TIMEOUT has passed (no timeout of that delay is
\* left) the promise has resolved, and once all timers have fired every
\* icon has been classified exactly once, its container carrying exactly
\* one of icon-loaded and icon-error, whenever its font became available.
C36_IconsClassifiedOnce ==
  page = "icons"
  => /\ icons.called /\ ~icons.timeout => icons.resolved
     /\ TimersDone
        => \A i \in Present(icons) :
             /\ icons.handled[i] = 1
             /\ Cardinality(icons.classes[i]) = 1

\* ------------------------------------------------------ navigation claims

\* The menu's DOM says what state.isMobileMenuOpen says.
DomAgrees(m) ==
  /\ m.ariaExpanded = String(m.isMobileMenuOpen)
  /\ m.ariaHidden = String(~m.isMobileMenuOpen)
  /\ m.menuActive = m.isMobileMenuOpen
  /\ m.toggleActive = m.isMobileMenuOpen
  /\ (m.overflow = "hidden") = m.isMobileMenuOpen

\* C37: after every handler the menu's DOM agrees with
\* state.isMobileMenuOpen, and after Escape, an outside click, a
\* smooth-scroll navigation or the debounced resize handler in a window at
\* least MOBILE_BREAKPOINT wide the menu is closed.
C37_MenuDomAgrees ==
  page = "menu"
  => /\ DomAgrees(menu)
     /\ menu.last \in {"Escape", "outside", "navigation"}
        => ~menu.isMobileMenuOpen
     /\ menu.last = "resize" /\ menu.innerWidth >= MOBILE_BREAKPOINT
        => ~menu.isMobileMenuOpen

\* An open menu is closed by a smooth-scroll navigation.
C37_Witness ==
  /\ page = "menu"
  /\ menu.last = "navigation"
  /\ menu.before
  /\ menu.activeSection # 0
  /\ ~menu.isMobileMenuOpen
  /\ menu.overflow = ""
  /\ menu.ariaHidden = "true"

\* C38: until the timeout set by the most recent smooth-scroll click has
\* fired (1000 ms after that click) navigationState.scrolling is true and
\* an intersection callback changes no active link, also when clicks
\* follow each other within 1000 ms.
C38_ScrollingHoldsFullSecond ==
  [][page = "nav"
     => /\ nav'.timers > 0 => nav'.scrolling
        /\ /\ nav.timers > 0
           /\ \E s \in 1 .. NumSections : Nav_handleIntersection(s)
           => nav'.activeSection = nav.activeSection]_vars

============================================================================
